---- MODULE Spec2Model ----
(***************************************************************************)
(* Tavily-load: key manager (internal/keymanager/manager.go), proxy        *)
(* pipeline (internal/handler/handler.go), error taxonomy (package errors, *)
(* held in internal/proxy/server.go) and the plan-first selector of the    *)
(* usage tracker (internal/usage/tracker.go).                              *)
(*                                                                         *)
(* Every proxy request is a goroutine; its position is req[w].pc.  Each    *)
(* action is one atomic step of the Go code: one sync.Map call, one        *)
(* sync/atomic call, or one read / one write of a field of a shared        *)
(* *KeyStatus.  The key status records are pointers: statusHeap holds the  *)
(* structs, keyStatus the pointer published in the sync.Map, req[w].held   *)
(* the pointer a goroutine loaded.  Time is counted in minutes.            *)
(*                                                                         *)
(* The pure functions (error taxonomy, remaining points, health score,    *)
(* upstream headers) are applied to drawn arguments; call holds the last   *)
(* application.                                                            *)
(*                                                                         *)
(* Not modelled: lastUsed / LastError / Reason / entry.ErrorCount fields,  *)
(* logging, request and response bodies.                                   *)
(***************************************************************************)
EXTENDS Integers, Sequences, FiniteSets, TLC

VARIABLES
    config,             \* config.Config: BlacklistThreshold, MaxRetries, StartIndex,
                        \* MaxConcurrentRequests, DefaultSelectionStrategy
    keys,               \* Manager.keys
    currentIndex,       \* Manager.currentIndex
    blacklist,          \* Manager.blacklist   (sync.Map key -> *BlacklistEntry)
    keyStatus,          \* Manager.keyStatus   (sync.Map key -> *KeyStatus): the pointer
    statusHeap,         \* the KeyStatus structs the pointers refer to
    requestCounts,      \* Manager.requestCounts
    errorCounts,        \* Manager.errorCounts
    selectionStrategy,  \* Manager.selectionStrategy
    strategyReply,      \* what the last call of /strategy answered
    statsReply,         \* what the last call of /stats answered
    limiter,            \* RateLimitMiddleware.limiter (rate.Limiter): its tokens
    call,               \* the last call of a pure function: arguments and result
    usage,              \* Tracker.memoryCache (key -> *TavilyUsage)
    repoBlacklist,      \* api_keys.is_blacklisted / blacklisted_until, history.is_permanent
    now,                \* time.Now(), in minutes
    req,                \* the proxy request goroutines
    admin,              \* the goroutine serving GET /reset-keys
    resetsDone,         \* number of ResetKeys calls started
    upstream,           \* the error statuses the upstream answers with in this run
    usageCache,         \* cache.UsageCache: the usage snapshots in Redis (key -> *TavilyUsage)
    stats,              \* Handler.stats: RequestsTotal, RequestsSuccess, RequestsError
    served,             \* each request's position in its h.stats increments
    repoKeys,           \* repository: the key_value column of api_keys
    repoUsage,          \* repository: key_usage_stats.requests_count of each key
    flush,              \* the goroutine updateKeyUsage starts for each selection
    budget              \* upstream attempts the run still admits

vars == <<config, keys, currentIndex, blacklist, keyStatus, statusHeap, requestCounts,
          errorCounts, selectionStrategy, strategyReply, statsReply, limiter, call, usage,
          repoBlacklist, now, req, admin, resetsDone, upstream, usageCache, stats, served,
          repoKeys, repoUsage, flush, budget>>

\* What the steps of a proxy request leave alone
storeVars == <<usageCache, stats, served, repoKeys, repoUsage, flush>>

serviceVars == <<selectionStrategy, strategyReply, statsReply, limiter, call, storeVars>>

envVars == <<config, keys, upstream>>

managerVars == <<currentIndex, blacklist, keyStatus, statusHeap, requestCounts, errorCounts,
                 repoBlacklist>>

-----------------------------------------------------------------------------
(* Bounds of the model *)

MaxAttempts == 2        \* upstream attempts in a run with a concurrent reset
MaxRotateAttempts == 4  \* upstream attempts in a run of concurrent requests
MaxBalanceAttempts == 3 \* upstream attempts in a run of concurrent selections
MaxPlanAttempts == 4    \* upstream attempts in a run with usage updates
MaxManageAttempts == 3  \* upstream attempts in a run with management calls
MaxSeqAttempts == 4     \* upstream attempts in a sequential run
MaxTimeAttempts == 3    \* upstream attempts in a run with a clock
MaxResets == 1          \* ResetKeys calls in a run
MaxTime == 6            \* the clock stops here (minutes)
MaxThreshold == 2       \* BLACKLIST_THRESHOLD is drawn from 1..MaxThreshold
MaxMaxRetries == 2      \* MAX_RETRIES is drawn from 0..MaxMaxRetries

MaxStatsAttempts == 3   \* upstream attempts in a run with reads of /stats
MaxStatsReads == 3      \* reads of /stats in a run
MinStatusCode == 400    \* the upstream's error statuses are drawn from
MaxStatusCode == 599    \* MinStatusCode..MaxStatusCode
MaxCountAttempts == 3   \* upstream attempts in a run of concurrent requests on one key
MaxLimitAttempts == 3   \* upstream attempts in a run behind the rate limiter
MaxConcurrent == 2      \* MAX_CONCURRENT_REQUESTS is drawn from 1..MaxConcurrent
MaxPoints == 2          \* usage and limit values of a /usage answer: 0..MaxPoints
MaxCount == 4           \* request and error counts of a key analytics record: 0..MaxCount
MaxHeaders == 2         \* headers of a client request
MaxLiveAttempts == 4    \* upstream attempts in a run under fair scheduling
MaxServeAttempts == 2   \* upstream attempts in a run that counts the handler statistics
MaxKeysAttempts == 2    \* upstream attempts in a run with key management calls
MaxPanicAttempts == 2   \* upstream attempts in a run with keys of every length
MaxFlushAttempts == 2   \* upstream attempts in a run with the usage flush goroutines
Workers == {"w1", "w2"}

NoKey == "none"
NoEntry == [Blacklisted |-> FALSE]
NoPtr == -1
NoUsage == [Present |-> FALSE]

\* &Stats{}: the handler's counters at NewHandler
NewStats == [RequestsTotal |-> 0, RequestsSuccess |-> 0, RequestsError |-> 0]

\* A request goroutine that is at none of the h.stats increments
NotServing == [pc |-> "none", tmp |-> 0, handled |-> 0]

-----------------------------------------------------------------------------
(* Error taxonomy: package errors *)

ErrorTypes == {"unauthorized", "invalid_key", "forbidden", "not_found", "bad_request",
               "rate_limit", "quota_exceeded", "server_error", "timeout",
               "network_error", "no_keys_available", "config_error", "internal_error"}

\* Fault: every class of error is retried
classifyErrorAllRetryable(errorType) ==
    IF errorType \in {"unauthorized", "invalid_key", "forbidden"}
    THEN <<TRUE, TRUE>> ELSE <<FALSE, TRUE>>

\* classifyError: <<permanent, retryable>>
classifyError(errorType) ==
    CASE errorType \in {"unauthorized", "invalid_key", "forbidden"} -> <<TRUE, TRUE>>
      [] errorType \in {"not_found", "bad_request"} -> <<FALSE, FALSE>>
      [] errorType \in {"rate_limit", "quota_exceeded"} -> <<FALSE, TRUE>>
      [] errorType \in {"server_error", "timeout", "network_error"} -> <<FALSE, TRUE>>
      [] errorType = "no_keys_available" -> <<FALSE, FALSE>>
      [] OTHER -> <<FALSE, TRUE>>

\* NewTavilyError / NewTavilyErrorWithKey
NewTavilyError(errorType, message, statusCode) ==
    [Type |-> errorType, Message |-> message, StatusCode |-> statusCode,
     Permanent |-> classifyError(errorType)[1],
     Retryable |-> classifyError(errorType)[2]]

\* Fault: every 5xx status is a server_error
ParseHTTPErrorByClass(statusCode) ==
    IF statusCode >= 500
    THEN NewTavilyError("server_error", "Server error", statusCode)
    ELSE NewTavilyError(
             CASE statusCode = 401 -> "unauthorized"
               [] statusCode = 403 -> "forbidden"
               [] statusCode = 404 -> "not_found"
               [] statusCode = 400 -> "bad_request"
               [] statusCode = 429 -> "rate_limit"
               [] statusCode \in {432, 433} -> "quota_exceeded"
               [] OTHER -> "internal_error",
             "HTTP error", statusCode)

\* ParseHTTPError
ParseHTTPError(statusCode) ==
    NewTavilyError(
        CASE statusCode = 401 -> "unauthorized"
          [] statusCode = 403 -> "forbidden"
          [] statusCode = 404 -> "not_found"
          [] statusCode = 400 -> "bad_request"
          [] statusCode = 429 -> "rate_limit"
          [] statusCode \in {432, 433} -> "quota_exceeded"
          [] statusCode \in {500, 502, 503, 504} -> "server_error"
          [] OTHER -> "internal_error",
        CASE statusCode = 401 -> "Invalid or expired API key"
          [] statusCode = 403 -> "Access forbidden"
          [] statusCode = 404 -> "Endpoint not found"
          [] statusCode = 400 -> "Bad request"
          [] statusCode = 429 -> "Rate limit exceeded"
          [] statusCode = 432 -> "API quota exceeded"
          [] statusCode = 433 -> "Monthly quota exceeded"
          [] statusCode \in {500, 502, 503, 504} -> "Server error"
          [] OTHER -> "HTTP error",
        statusCode)

NoError ==
    [Type |-> "none", Message |-> "", StatusCode |-> 0, Permanent |-> FALSE,
     Retryable |-> FALSE]

\* What the client has been sent: nothing yet
NoResponse == [Status |-> 0, Body |-> ""]

\* The upstream answers the model draws from: one per flag combination.
UpstreamErrorStatuses == {400, 401, 404, 500}
\* BLACKLIST_THRESHOLD when unset
DefaultBlacklistThreshold == 1

-----------------------------------------------------------------------------
(* Key manager helpers *)

N == Len(keys)
KeySet == {keys[i] : i \in 1..Len(keys)}

\* Fault: the cursor advances by two
AdvanceCursorTwice(c) == c + 2

\* atomic.AddInt64(&m.currentIndex, 1)
AdvanceCursor(c) == c + 1

\* index := ... % int64(totalKeys); key := m.keys[index]
KeyAtCursor(c) == keys[(c % N) + 1]

\* _, blacklisted := m.blacklist.Load(key)
IsBlacklisted(k) == blacklist[k].Blacklisted

\* Fault: the range of ResetKeys keeps the permanent entries
DeleteTemporary(bl, k) ==
    IF bl[k].Blacklisted /\ bl[k].Permanent THEN bl ELSE [bl EXCEPT ![k] = [Blacklisted |-> FALSE]]

\* m.blacklist.Delete(key)
Delete(bl, k) == [bl EXCEPT ![k] = NoEntry]

\* Fault: the threshold test with > for >=
ExceededThreshold(count) == count > config.BlacklistThreshold

\* int(errorCount) >= m.config.BlacklistThreshold
ReachedThreshold(count) == count >= config.BlacklistThreshold

\* tempUntil := now.Add(5 * time.Minute)
TempBlacklistMinutes == 5
TempUntil(t) == t + TempBlacklistMinutes

\* &types.BlacklistEntry{...}
NewBlacklistEntry(permanent, t) ==
    [Blacklisted |-> TRUE, Permanent |-> permanent, BlacklistedAt |-> t]

\* &types.KeyStatus{Active: true, ErrorCount: 0, RequestCount: 0}
NewKeyStatus == [Active |-> TRUE, ErrorCount |-> 0, RequestCount |-> 0, Permanent |-> FALSE]

\* keyRepo.BlacklistKey(ctx, key, reason, permanent, until)
RepoRow(permanent, t) ==
    [Blacklisted |-> TRUE, Permanent |-> permanent,
     Until |-> IF permanent THEN -1 ELSE TempUntil(t)]

Gens == 0..MaxResets

\* The struct a published or loaded pointer refers to is live; the others are garbage.
Live(ks, rq, k, g) ==
    \/ ks[k] = g
    \/ \E w \in Workers : rq[w].key = k /\ rq[w].held = g

Collect(heap, ks, rq) ==
    [k \in KeySet |-> [g \in Gens |-> IF Live(ks, rq, k, g) THEN heap[k][g] ELSE NewKeyStatus]]

-----------------------------------------------------------------------------
(* Usage tracker: plan-first selection *)

\* CalculateRemainingPoints
PlanRemaining(u) == u.PlanLimit - u.PlanUsage
PaygoRemaining(u) == u.PaygoLimit - u.PaygoUsage
TotalRemaining(u) == (u.KeyLimit - u.KeyUsage) + PlanRemaining(u) + PaygoRemaining(u)

\* A /usage answer: a key with plan credits left
PlanSnapshot ==
    [Present |-> TRUE, KeyUsage |-> 0, KeyLimit |-> 0, PlanUsage |-> 0, PlanLimit |-> 10,
     PaygoUsage |-> 0, PaygoLimit |-> 0]

\* GetAllUsage
AllUsage == {k \in DOMAIN usage : usage[k].Present}

\* selectPlanFirstKey: the keys a pass does not skip
Eligible == {k \in AllUsage : TotalRemaining(usage[k]) > 0}

\* The keys a pass of selectPlanFirstKey may end with: the running maximum starts
\* at -1, a strict > keeps the first maximal key met, and the order of a Go map
\* range is not fixed.
BestPlanKeys ==
    {k \in Eligible : /\ PlanRemaining(usage[k]) > -1
                      /\ \A j \in Eligible : PlanRemaining(usage[j]) <= PlanRemaining(usage[k])}

BestPaygoKeys ==
    {k \in Eligible : /\ PaygoRemaining(usage[k]) > -1
                      /\ \A j \in Eligible : PaygoRemaining(usage[j]) <= PaygoRemaining(usage[k])}

\* selectPlanFirstKey: the set of keys it may return; {} is the error
selectPlanFirstKey ==
    IF \E k \in BestPlanKeys : PlanRemaining(usage[k]) > 0
    THEN BestPlanKeys
    ELSE BestPaygoKeys

\* GetOptimalKey
GetOptimalKey(strategy) ==
    IF AllUsage = {} THEN {}
    ELSE IF strategy = "plan_first" THEN selectPlanFirstKey ELSE {}

-----------------------------------------------------------------------------
(* Request goroutines *)

\* sent counts the upstream attempts of the request; rc0 and ec0 are the counters of
\* the selected key as they were when the selection picked it; errKey is lastErr.Key,
\* the key of the attempt that failed.
IdleReq(response) ==
    [pc |-> "idle", attempt |-> 0, key |-> NoKey, rrI |-> 0, held |-> NoPtr, tmp |-> 0,
     lastErr |-> NoError, blAt |-> 0, cancelled |-> FALSE, response |-> response,
     sent |-> 0, rc0 |-> 0, ec0 |-> 0, errKey |-> NoKey]

\* http.Error(w, message, status) and return: the request ends
Respond(w, status, body) ==
    req' = [req EXCEPT ![w] = IdleReq([Status |-> status, Body |-> body])]

\* Fault: the retry loop has no bound
LoopNeverEnds(attempt) == TRUE

\* Fault: the retry loop runs one iteration more
LoopContinuesOnceMore(attempt) == attempt <= config.MaxRetries

\* for attempt := 0; attempt <= h.config.MaxRetries; attempt++: the test after attempt++
LoopContinues(attempt) == attempt + 1 <= config.MaxRetries

\* proxyTavilyRequest: entry, attempt := 0.  A request is taken while its whole
\* retry loop fits the attempts the run still admits.
proxyTavilyRequest(w) ==
    /\ req[w].pc = "idle"
    /\ budget >= config.MaxRetries + 1
    /\ budget' = budget - (config.MaxRetries + 1)
    /\ req' = [req EXCEPT ![w] = [IdleReq(NoResponse) EXCEPT !.pc = "select"]]
    /\ UNCHANGED <<envVars, managerVars, storeVars,
                   selectionStrategy, strategyReply, statsReply, call,
                   usage, now, admin, resetsDone>>

\* A request reaches proxyTavilyRequest with the limiter out of its way
Begin(w) ==
    /\ proxyTavilyRequest(w)
    /\ UNCHANGED limiter

\* GetNextKey -> GetNextKeyWithStrategy: the plan-first attempt, else round-robin
GetNextKeyWithStrategy(w) ==
    /\ req[w].pc = "select"
    /\ LET opt == IF selectionStrategy = "plan_first"
                  THEN GetOptimalKey(selectionStrategy) ELSE {}
       IN \/ /\ opt = {}
             /\ req' = [req EXCEPT ![w].pc = "rr", ![w].rrI = 0]
          \/ \E k \in opt :
                IF ~IsBlacklisted(k)
                THEN req' = [req EXCEPT ![w].pc = "usage", ![w].key = k,
                                        ![w].rc0 = requestCounts[k],
                                        ![w].ec0 = errorCounts[k]]
                ELSE req' = [req EXCEPT ![w].pc = "rr", ![w].rrI = 0]
    /\ UNCHANGED <<envVars, managerVars, serviceVars, usage, now, admin,
                   resetsDone, budget>>

\* getRoundRobinKey: one iteration's atomic.AddInt64 and m.keys[index]
RoundRobinAdvance(w) ==
    /\ req[w].pc = "rr"
    /\ req[w].rrI < N
    /\ currentIndex' = AdvanceCursor(currentIndex)
    /\ req' = [req EXCEPT ![w].pc = "rr_check", ![w].rrI = @ + 1,
                          ![w].key = KeyAtCursor(currentIndex')]
    /\ UNCHANGED <<envVars, blacklist, keyStatus, statusHeap, requestCounts, errorCounts,
                   repoBlacklist, serviceVars, usage, now, admin, resetsDone, budget>>

\* getRoundRobinKey: the blacklist check of the iteration
RoundRobinCheck(w) ==
    /\ req[w].pc = "rr_check"
    /\ IF IsBlacklisted(req[w].key)
       THEN req' = [req EXCEPT ![w].pc = "rr", ![w].key = NoKey]
       ELSE req' = [req EXCEPT ![w].pc = "usage",
                               ![w].rc0 = requestCounts[req[w].key],
                               ![w].ec0 = errorCounts[req[w].key]]
    /\ UNCHANGED <<envVars, managerVars, serviceVars, usage, now, admin,
                   resetsDone, budget>>

\* Fault: with every key blacklisted the selection waits for a key instead of giving up
NoKeysWaits(w) ==
    /\ req[w].pc = "rr"
    /\ req[w].rrI >= N
    /\ UNCHANGED vars

\* Fault: the handler answers with the status code of the selection error
NoKeysAnswersErrorStatus(w) ==
    /\ req[w].pc = "rr"
    /\ req[w].rrI >= N
    /\ Respond(w, 500, "all API keys are blacklisted")
    /\ UNCHANGED <<envVars, managerVars, serviceVars, usage, now, admin,
                   resetsDone, budget>>

\* getRoundRobinKey: the loop ends, "all API keys are blacklisted"; the handler answers 503
NoKeysAvailable(w) ==
    /\ req[w].pc = "rr"
    /\ req[w].rrI >= N
    /\ Respond(w, 503, "No API keys available")
    /\ UNCHANGED <<envVars, managerVars, serviceVars, usage, now, admin,
                   resetsDone, budget>>

\* updateKeyUsage: atomic.AddInt64(m.getRequestCountPtr(key), 1)
UpdateKeyUsageCount(w) ==
    /\ req[w].pc = "usage"
    /\ requestCounts' = [requestCounts EXCEPT ![req[w].key] = @ + 1]
    /\ req' = [req EXCEPT ![w].pc = "usage_load"]
    /\ UNCHANGED <<envVars, currentIndex, blacklist, keyStatus, statusHeap, errorCounts,
                   repoBlacklist, serviceVars, usage, now, admin, resetsDone, budget>>

\* updateKeyUsage: m.keyStatus.Load(key) and the read of status.RequestCount
UpdateKeyUsageLoad(w) ==
    /\ req[w].pc = "usage_load"
    /\ LET k == req[w].key
           p == keyStatus[k]
       IN req' = [req EXCEPT ![w].pc = "usage_store", ![w].held = p,
                             ![w].tmp = statusHeap[k][p].RequestCount]
    /\ UNCHANGED <<envVars, managerVars, serviceVars, usage, now, admin,
                   resetsDone, budget>>

\* updateKeyUsage: the write of status.RequestCount and m.keyStatus.Store(key, status)
UpdateKeyUsageStore(w) ==
    /\ req[w].pc = "usage_store"
    /\ LET k == req[w].key
           p == req[w].held
           rq == [req EXCEPT ![w].pc = "call", ![w].held = NoPtr, ![w].tmp = 0]
           ks == [keyStatus EXCEPT ![k] = p]
       IN /\ req' = rq
          /\ keyStatus' = ks
          /\ statusHeap' = Collect([statusHeap EXCEPT ![k][p].RequestCount = req[w].tmp + 1],
                                   ks, rq)
    /\ UNCHANGED <<envVars, currentIndex, blacklist, requestCounts, errorCounts,
                   repoBlacklist, serviceVars, usage, now, admin, resetsDone, budget>>

\* makeRequest: h.httpClient.Do(req) sends the attempt with the selected key
MakeRequest(w) ==
    /\ req[w].pc = "call"
    /\ req' = [req EXCEPT ![w].pc = "wait", ![w].sent = @ + 1]
    /\ UNCHANGED <<envVars, managerVars, serviceVars, usage, now, admin,
                   resetsDone, budget>>

\* the client goes away while the upstream call is outstanding: r.Context() is cancelled
Cancel(w) ==
    /\ req[w].pc = "wait"
    /\ ~req[w].cancelled
    /\ req' = [req EXCEPT ![w].cancelled = TRUE]
    /\ UNCHANGED <<envVars, managerVars, serviceVars, usage, now, admin,
                   resetsDone, budget>>

\* makeRequest returns a response below 400; copyResponse: the headers and
\* w.WriteHeader(resp.StatusCode)
UpstreamSuccess(w) ==
    /\ req[w].pc = "wait"
    /\ ~req[w].cancelled
    /\ req' = [req EXCEPT ![w].pc = "copy", ![w].response = [Status |-> 200, Body |-> ""]]
    /\ UNCHANGED <<envVars, managerVars, serviceVars, usage, now, admin,
                   resetsDone, budget>>

\* Fault: the loop goes on after the response has been copied
CopyBodyAndContinue(w) ==
    /\ req[w].pc = "copy"
    /\ req' = [req EXCEPT ![w].pc = "select", ![w].response.Body = "upstream body"]
    /\ UNCHANGED <<envVars, managerVars, serviceVars, usage, now, admin,
                   resetsDone, budget>>

\* copyResponse: io.Copy(w, resp.Body); proxyTavilyRequest returns
CopyBody(w) ==
    /\ req[w].pc = "copy"
    /\ Respond(w, req[w].response.Status, "upstream body")
    /\ UNCHANGED <<envVars, managerVars, serviceVars, usage, now, admin,
                   resetsDone, budget>>

\* How h.httpClient.Do may fail: the deadline passes, the connection is refused or reset
TransportFailures == {"timeout", "refused", "reset"}

\* makeRequest: err != nil from h.httpClient.Do(req)
TransportError(failure) == NewTavilyError("network_error", "Network error", 500)

\* makeRequest returns an error: a status >= 400, or Do failed (always so once the
\* context is cancelled); lastErr = err
UpstreamError(w) ==
    /\ req[w].pc = "wait"
    /\ \E e \in {TransportError(failure) : failure \in TransportFailures} \cup
                (IF req[w].cancelled THEN {}
                 ELSE {ParseHTTPError(s) : s \in upstream}) :
          req' = [req EXCEPT ![w].pc = "rec", ![w].lastErr = e, ![w].errKey = req[w].key]
    /\ UNCHANGED <<envVars, managerVars, serviceVars, usage, now, admin,
                   resetsDone, budget>>

\* Fault: RecordError does not count the error
RecordErrorUncounted(w) ==
    /\ req[w].pc = "rec"
    /\ req' = [req EXCEPT ![w].pc = "rec_load"]
    /\ UNCHANGED <<envVars, managerVars, serviceVars, usage, now, admin,
                   resetsDone, budget>>

\* RecordError: atomic.AddInt64(m.getErrorCountPtr(key), 1)
RecordErrorCount(w) ==
    /\ req[w].pc = "rec"
    /\ errorCounts' = [errorCounts EXCEPT ![req[w].key] = @ + 1]
    /\ req' = [req EXCEPT ![w].pc = "rec_load"]
    /\ UNCHANGED <<envVars, currentIndex, blacklist, keyStatus, statusHeap, requestCounts,
                   repoBlacklist, serviceVars, usage, now, admin, resetsDone, budget>>

\* RecordError: m.keyStatus.Load(key) and the read of status.ErrorCount
RecordErrorLoad(w) ==
    /\ req[w].pc = "rec_load"
    /\ LET k == req[w].key
           p == keyStatus[k]
       IN req' = [req EXCEPT ![w].pc = "rec_store", ![w].held = p,
                             ![w].tmp = statusHeap[k][p].ErrorCount]
    /\ UNCHANGED <<envVars, managerVars, serviceVars, usage, now, admin,
                   resetsDone, budget>>

\* RecordError: the write of status.ErrorCount and m.keyStatus.Store(key, status)
RecordErrorStore(w) ==
    /\ req[w].pc = "rec_store"
    /\ LET k == req[w].key
           p == req[w].held
           rq == [req EXCEPT ![w].pc = "rec_check", ![w].held = NoPtr, ![w].tmp = 0]
           ks == [keyStatus EXCEPT ![k] = p]
       IN /\ req' = rq
          /\ keyStatus' = ks
          /\ statusHeap' = Collect([statusHeap EXCEPT ![k][p].ErrorCount = req[w].tmp + 1],
                                   ks, rq)
    /\ UNCHANGED <<envVars, currentIndex, blacklist, requestCounts, errorCounts,
                   repoBlacklist, serviceVars, usage, now, admin, resetsDone, budget>>

\* RecordError: the threshold test; BlacklistKey: now := time.Now(), the repository
\* and cache writes
RecordErrorCheck(w) ==
    /\ req[w].pc = "rec_check"
    /\ LET k == req[w].key
       IN IF ReachedThreshold(errorCounts[k])
          THEN /\ req' = [req EXCEPT ![w].pc = "bl_store", ![w].blAt = now]
               /\ repoBlacklist' = [repoBlacklist EXCEPT
                                      ![k] = RepoRow(req[w].lastErr.Permanent, now)]
          ELSE /\ req' = [req EXCEPT ![w].pc = "recorded"]
               /\ UNCHANGED repoBlacklist
    /\ UNCHANGED <<envVars, currentIndex, blacklist, keyStatus, statusHeap, requestCounts,
                   errorCounts, serviceVars, usage, now, admin, resetsDone, budget>>

\* BlacklistKey: m.blacklist.Store(key, entry)
BlacklistStore(w) ==
    /\ req[w].pc = "bl_store"
    /\ blacklist' = [blacklist EXCEPT
                       ![req[w].key] = NewBlacklistEntry(req[w].lastErr.Permanent, req[w].blAt)]
    /\ req' = [req EXCEPT ![w].pc = "bl_load", ![w].blAt = 0]
    /\ UNCHANGED <<envVars, currentIndex, keyStatus, statusHeap, requestCounts,
                   errorCounts, repoBlacklist, serviceVars, usage, now, admin,
                   resetsDone, budget>>

\* BlacklistKey: m.keyStatus.Load(key)
BlacklistStatusLoad(w) ==
    /\ req[w].pc = "bl_load"
    /\ req' = [req EXCEPT ![w].pc = "bl_status", ![w].held = keyStatus[req[w].key]]
    /\ UNCHANGED <<envVars, managerVars, serviceVars, usage, now, admin,
                   resetsDone, budget>>

\* BlacklistKey: status.Active = false, status.Permanent = permanent,
\* m.keyStatus.Store(key, status); RecordError returns
BlacklistStatusStore(w) ==
    /\ req[w].pc = "bl_status"
    /\ LET k == req[w].key
           p == req[w].held
           rq == [req EXCEPT ![w].pc = "recorded", ![w].held = NoPtr]
           ks == [keyStatus EXCEPT ![k] = p]
       IN /\ req' = rq
          /\ keyStatus' = ks
          /\ statusHeap' = Collect([statusHeap EXCEPT
                                      ![k][p].Active = FALSE,
                                      ![k][p].Permanent = req[w].lastErr.Permanent],
                                   ks, rq)
    /\ UNCHANGED <<envVars, currentIndex, blacklist, requestCounts, errorCounts,
                   repoBlacklist, serviceVars, usage, now, admin, resetsDone, budget>>

\* proxyTavilyRequest: after RecordError, `continue` with the next attempt
Retry(w) ==
    /\ req[w].pc = "recorded"
    /\ req[w].lastErr.Retryable
    /\ LoopContinues(req[w].attempt)
    /\ req' = [req EXCEPT ![w].pc = "select", ![w].attempt = @ + 1, ![w].key = NoKey,
                          ![w].rc0 = 0, ![w].ec0 = 0]
    /\ UNCHANGED <<envVars, managerVars, serviceVars, usage, now, admin,
                   resetsDone, budget>>

\* proxyTavilyRequest: `break` on a non-retryable error, or the loop is exhausted;
\* http.Error(w, tavilyErr.Message, tavilyErr.StatusCode)
Fail(w) ==
    /\ req[w].pc = "recorded"
    /\ ~req[w].lastErr.Retryable \/ ~LoopContinues(req[w].attempt)
    /\ Respond(w, req[w].lastErr.StatusCode, req[w].lastErr.Message)
    /\ UNCHANGED <<envVars, managerVars, serviceVars, usage, now, admin,
                   resetsDone, budget>>

-----------------------------------------------------------------------------
(* ResetKeys, served by GET /reset-keys *)

IdleAdmin == [pc |-> "idle", todo |-> {}, i |-> 0]

\* ResetKeysHandler -> ResetKeys: m.blacklist.Range starts over the entries present
ResetKeysBegin ==
    /\ admin.pc = "idle"
    /\ resetsDone < MaxResets
    /\ resetsDone' = resetsDone + 1
    /\ LET present == {k \in KeySet : IsBlacklisted(k)}
       IN admin' = IF present = {} THEN [pc |-> "status", todo |-> {}, i |-> 1]
                   ELSE [pc |-> "range", todo |-> present, i |-> 0]
    /\ UNCHANGED <<envVars, managerVars, serviceVars, usage, now, req, budget>>

\* ResetKeys: m.blacklist.Delete(key) for one entry of the range
ResetRangeDelete ==
    /\ admin.pc = "range"
    /\ \E k \in admin.todo :
          /\ blacklist' = Delete(blacklist, k)
          /\ admin' = IF admin.todo = {k} THEN [pc |-> "status", todo |-> {}, i |-> 1]
                      ELSE [admin EXCEPT !.todo = @ \ {k}]
    /\ UNCHANGED <<envVars, currentIndex, keyStatus, statusHeap, requestCounts,
                   errorCounts, repoBlacklist, serviceVars, usage, now, req,
                   resetsDone, budget>>

\* ResetKeys: m.keyStatus.Store(key, &types.KeyStatus{Active: true, ...})
ResetStoreStatus ==
    /\ admin.pc = "status"
    /\ LET k == keys[admin.i]
           ks == [keyStatus EXCEPT ![k] = resetsDone]
       IN /\ keyStatus' = ks
          /\ statusHeap' = Collect([statusHeap EXCEPT ![k][resetsDone] = NewKeyStatus], ks, req)
    /\ admin' = [admin EXCEPT !.pc = "requests"]
    /\ UNCHANGED <<envVars, currentIndex, blacklist, requestCounts, errorCounts,
                   repoBlacklist, serviceVars, usage, now, req, resetsDone, budget>>

\* ResetKeys: m.requestCounts.Store(key, &requestCount)
ResetStoreRequestCount ==
    /\ admin.pc = "requests"
    /\ requestCounts' = [requestCounts EXCEPT ![keys[admin.i]] = 0]
    /\ admin' = [admin EXCEPT !.pc = "errors"]
    /\ UNCHANGED <<envVars, currentIndex, blacklist, keyStatus, statusHeap, errorCounts,
                   repoBlacklist, serviceVars, usage, now, req, resetsDone, budget>>

\* ResetKeys: m.errorCounts.Store(key, &errorCount); next key, or return
ResetStoreErrorCount ==
    /\ admin.pc = "errors"
    /\ errorCounts' = [errorCounts EXCEPT ![keys[admin.i]] = 0]
    /\ admin' = IF admin.i < N THEN [admin EXCEPT !.pc = "status", !.i = @ + 1]
                ELSE IdleAdmin
    /\ UNCHANGED <<envVars, currentIndex, blacklist, keyStatus, statusHeap, requestCounts,
                   repoBlacklist, serviceVars, usage, now, req, resetsDone, budget>>

-----------------------------------------------------------------------------
(* Management operations and the clock *)

Strategies == {"plan_first", "round_robin"}

\* getEnvString("DEFAULT_SELECTION_STRATEGY", "round_robin")
DefaultStrategy == "round_robin"

\* getEnvInt("MAX_CONCURRENT_REQUESTS", 100)
DefaultMaxConcurrentRequests == 100

\* rate.NewLimiter(limit, cfg.MaxConcurrentRequests): the bucket starts full
NewRateLimitMiddleware(burst) == [Tokens |-> burst, Burst |-> burst]

\* No call of /stats has been answered
NoStats == [Op |-> "none", Count |-> 0]

\* No pure function has been called
NoCall == [Fn |-> "none"]

\* No call of /strategy has been answered
NoReply == [Op |-> "none", Requested |-> "", Status |-> 0, Strategy |-> ""]

\* What a POST /strategy may ask for: the two strategies and an unknown one
StrategyInputs == Strategies \cup {"fastest"}

\* Fault: the handler accepts any strategy
AcceptAnyStrategy(s) == TRUE

\* setStrategyHandler: validStrategies[request.Strategy]
ValidStrategy(s) == s \in Strategies

\* setStrategyHandler: 400 on an unknown strategy, else SetSelectionStrategy and 200
setStrategyHandler ==
    /\ \E s \in StrategyInputs :
          IF ValidStrategy(s)
          THEN /\ selectionStrategy' = s
               /\ strategyReply' = [Op |-> "set", Requested |-> s, Status |-> 200,
                                    Strategy |-> s]
          ELSE /\ selectionStrategy' = selectionStrategy
               /\ strategyReply' = [Op |-> "set", Requested |-> s, Status |-> 400,
                                    Strategy |-> ""]
    /\ UNCHANGED <<envVars, managerVars, storeVars,
                   statsReply, limiter, call, usage, now, req, admin,
                   resetsDone, budget>>

\* getStrategyHandler: "current_strategy": GetSelectionStrategy()
getStrategyHandler ==
    /\ strategyReply' = [Op |-> "get", Requested |-> "", Status |-> 200,
                         Strategy |-> selectionStrategy]
    /\ UNCHANGED <<envVars, managerVars, storeVars,
                   selectionStrategy, statsReply, limiter, call, usage,
                   now, req, admin, resetsDone, budget>>

\* The /usage answers the model draws: the plan and pay-as-you-go credits left
LargePlanSnapshot == [PlanSnapshot EXCEPT !.PlanLimit = 100]
PaygoSnapshot == [PlanSnapshot EXCEPT !.PlanLimit = 0, !.PaygoLimit = 500]
SpentSnapshot == [PlanSnapshot EXCEPT !.PlanLimit = 0]
Snapshots == {PlanSnapshot, LargePlanSnapshot, PaygoSnapshot, SpentSnapshot}

\* UpdateUsageFromAPI -> Tracker.UpdateUsage(key, usage): t.memoryCache.Store
UpdateUsage ==
    /\ \E k \in KeySet, u \in Snapshots :
          /\ usage[k] # u
          /\ usage' = [usage EXCEPT ![k] = u]
    /\ UNCHANGED <<envVars, managerVars, serviceVars, now, req, admin, resetsDone,
                   budget>>

\* usageCache.SetUsage(ctx, key, usage): SetJSON stores the snapshot, or returns an error
\* (Redis unreachable, the 2 s context over) and leaves the cache as it was
SetUsage(k, u, ok) == IF ok THEN [usageCache EXCEPT ![k] = u] ELSE usageCache

\* usageCache.GetUsage(ctx, key): the cached snapshot, or an error (a miss, Redis
\* unreachable, the 1 s context over)
CacheGetUsage(k, ok) == IF ok THEN usageCache[k] ELSE NoUsage

\* Tracker.UpdateUsage(key, usage): usageCache.SetUsage, then t.memoryCache.Store in
\* both branches
TrackerUpdateUsage ==
    /\ \E k \in KeySet, u \in Snapshots, ok \in BOOLEAN :
          /\ usageCache' = SetUsage(k, u, ok)
          /\ usage' = [usage EXCEPT ![k] = u]
          /\ call' = [Fn |-> "UpdateUsage", Arg |-> k, Usage |-> u]
    /\ UNCHANGED <<envVars, managerVars, stats, served, repoKeys, repoUsage, flush,
                   selectionStrategy, strategyReply, statsReply, limiter, now, req, admin,
                   resetsDone, budget>>

\* Tracker.GetUsage(key): the Redis cache first, the memory cache if that read fails
GetUsage ==
    /\ \E k \in KeySet, ok \in BOOLEAN :
          LET cached == CacheGetUsage(k, ok)
          IN call' = [Fn |-> "GetUsage", Arg |-> k,
                      Result |-> IF cached.Present THEN cached ELSE usage[k]]
    /\ UNCHANGED <<envVars, managerVars, storeVars, selectionStrategy, strategyReply,
                   statsReply, limiter, usage, now, req, admin, resetsDone, budget>>

\* DefaultUsageTTL: Redis drops a cached snapshot five minutes after it was written
ExpireUsage ==
    /\ \E k \in KeySet :
          /\ usageCache[k].Present
          /\ usageCache' = [usageCache EXCEPT ![k] = NoUsage]
    /\ UNCHANGED <<envVars, managerVars, stats, served, repoKeys, repoUsage, flush,
                   selectionStrategy, strategyReply, statsReply, limiter, call, usage, now,
                   req, admin, resetsDone, budget>>

\* KeyRepository.UnblacklistKey: is_blacklisted = false, blacklisted_until = NULL
UnblacklistKey ==
    /\ \E k \in KeySet :
          /\ repoBlacklist[k].Blacklisted
          /\ repoBlacklist' = [repoBlacklist EXCEPT ![k] = NoEntry]
    /\ UNCHANGED <<envVars, currentIndex, blacklist, keyStatus, statusHeap, requestCounts,
                   errorCounts, serviceVars, usage, now, req, admin, resetsDone, budget>>

\* setStrategyHandler -> SetSelectionStrategy
SetSelectionStrategy ==
    /\ \E s \in Strategies \ {selectionStrategy} : selectionStrategy' = s
    /\ UNCHANGED <<envVars, managerVars, storeVars,
                   strategyReply, statsReply, limiter, call, usage, now,
                   req, admin, resetsDone, budget>>

\* a minute passes
Tick ==
    /\ now < MaxTime
    /\ now' = now + 1
    /\ UNCHANGED <<envVars, managerVars, serviceVars, usage, req, admin,
                   resetsDone, budget>>

\* Fault: the read of the cursor is an atomic.AddInt64
LoadAndAdvance(v) == AdvanceCursor(v)

\* atomic.LoadInt64(&m.currentIndex): what the read leaves in the cursor
LoadInt64(v) == v

\* GetStats: the document built from the manager's maps
GetStats ==
    [TotalKeys |-> N,
     CurrentIndex |-> currentIndex % N,
     RequestCounts |-> requestCounts,
     ErrorCounts |-> errorCounts,
     KeyStatus |-> [k \in KeySet |-> statusHeap[k][keyStatus[k]]],
     ActiveKeys |-> Cardinality({k \in KeySet : statusHeap[k][keyStatus[k]].Active}),
     BlacklistedKeys |-> Cardinality({k \in KeySet : ~statusHeap[k][keyStatus[k]].Active})]

\* StatsHandler: stats := h.keyManager.GetStats(); json.NewEncoder(w).Encode(stats).
\* Seen is the manager's state the document was read from, Repeated whether the read
\* before this one saw the same state.
StatsHandler ==
    /\ statsReply.Count < MaxStatsReads
    /\ currentIndex' = LoadInt64(currentIndex)
    /\ statsReply' =
          [Op |-> "stats",
           Count |-> statsReply.Count + 1,
           Doc |-> GetStats,
           Seen |-> managerVars,
           Repeated |-> statsReply.Op = "stats" /\ statsReply.Seen = managerVars]
    /\ UNCHANGED <<envVars, blacklist, keyStatus, statusHeap, requestCounts, errorCounts,
                   repoBlacklist, storeVars, selectionStrategy, strategyReply, limiter, call,
                   usage, now, req, admin, resetsDone, budget>>

(* Calls of the pure functions *)

\* A call of ParseHTTPError on an upstream status
CallParseHTTPError ==
    /\ \E statusCode \in MinStatusCode..MaxStatusCode :
          call' = [Fn |-> "ParseHTTPError", Arg |-> statusCode,
                   Result |-> ParseHTTPError(statusCode)]
    /\ UNCHANGED <<envVars, managerVars, storeVars, selectionStrategy, strategyReply, statsReply,
                   limiter, usage, now, req, admin, resetsDone, budget>>

\* A call of NewTavilyError on an error type
CallNewTavilyError ==
    /\ \E errorType \in ErrorTypes :
          call' = [Fn |-> "NewTavilyError", Arg |-> errorType,
                   Result |-> NewTavilyError(errorType, "", 0)]
    /\ UNCHANGED <<envVars, managerVars, storeVars, selectionStrategy, strategyReply, statsReply,
                   limiter, usage, now, req, admin, resetsDone, budget>>

\* makeRequest on a transport failure of h.httpClient.Do
CallTransportError ==
    /\ \E failure \in TransportFailures :
          call' = [Fn |-> "Do", Arg |-> failure, Result |-> TransportError(failure)]
    /\ UNCHANGED <<envVars, managerVars, storeVars, selectionStrategy, strategyReply, statsReply,
                   limiter, usage, now, req, admin, resetsDone, budget>>

(* RateLimitMiddleware *)

\* RateLimitMiddleware.Handler: 429 unless m.limiter.Allow() takes a token, else
\* next.ServeHTTP(w, r)
RateLimitHandler(w) ==
    /\ req[w].pc = "idle"
    /\ IF limiter.Tokens > 0
       THEN /\ limiter' = [limiter EXCEPT !.Tokens = @ - 1]
            /\ proxyTavilyRequest(w)
       ELSE /\ Respond(w, 429, "Rate limit exceeded")
            /\ UNCHANGED <<envVars, managerVars, serviceVars, usage, now, admin, resetsDone,
                           budget>>

\* rate.Limiter: 10/MaxConcurrentRequests seconds pass and the bucket, if not full,
\* gains a token
Refill ==
    /\ limiter.Tokens < limiter.Burst
    /\ limiter' = [limiter EXCEPT !.Tokens = @ + 1]
    /\ UNCHANGED <<envVars, managerVars, storeVars,
                   selectionStrategy, strategyReply, statsReply, call,
                   usage, now, req, admin, resetsDone, budget>>

\* float64(usage) / float64(limit) when limit > 0, else the zero value: the quotient
\* as a fraction
Utilization(used, limit) ==
    IF limit > 0 THEN [Num |-> used, Den |-> limit] ELSE [Num |-> 0, Den |-> 1]

\* CalculateRemainingPoints
CalculateRemainingPoints(u) ==
    [KeyRemaining |-> u.KeyLimit - u.KeyUsage,
     PlanRemaining |-> PlanRemaining(u),
     PaygoRemaining |-> PaygoRemaining(u),
     TotalRemaining |-> TotalRemaining(u),
     KeyUtilization |-> Utilization(u.KeyUsage, u.KeyLimit),
     PlanUtilization |-> Utilization(u.PlanUsage, u.PlanLimit),
     PaygoUtilization |-> Utilization(u.PaygoUsage, u.PaygoLimit)]

\* The /usage answers: FetchUsageFromAPI decodes what the upstream sent, unchecked
UsageAnswers ==
    [Present : {TRUE}, KeyUsage : 0..MaxPoints, KeyLimit : 0..MaxPoints,
     PlanUsage : 0..MaxPoints, PlanLimit : 0..MaxPoints,
     PaygoUsage : 0..MaxPoints, PaygoLimit : 0..MaxPoints]

\* UpdateUsage(key, usage): analytics.RemainingPoints, _ = t.CalculateRemainingPoints(key)
CallCalculateRemainingPoints ==
    /\ \E u \in UsageAnswers :
          call' = [Fn |-> "CalculateRemainingPoints", Arg |-> u,
                   Result |-> CalculateRemainingPoints(u)]
    /\ UNCHANGED <<envVars, managerVars, storeVars, selectionStrategy, strategyReply, statsReply,
                   limiter, usage, now, req, admin, resetsDone, budget>>

\* Floating-point values are fractions [Num, Den] with Den > 0
Frac(n, d) == [Num |-> n, Den |-> d]

\* if healthScore < 0 { healthScore = 0 }; if healthScore > 1 { healthScore = 1 }
Clamp01(x) ==
    IF x.Num < 0 THEN Frac(0, 1) ELSE IF x.Num > x.Den THEN Frac(1, 1) ELSE x

\* quotaBonus, in thousandths: TotalRemaining / 1000.0, at most 1.0
QuotaBonusMilli(totalRemaining) == IF totalRemaining > 1000 THEN 1000 ELSE totalRemaining

\* calculateHealthScore (the tracker's and the manager's are the same function)
calculateHealthScore(analytics) ==
    IF analytics.RequestCount = 0
    THEN Frac(1, 1)
    ELSE LET r == analytics.RequestCount
             ok == analytics.RequestCount - analytics.ErrorCount
         IN Clamp01(
               IF ~analytics.RemainingPoints.Present
               THEN Frac(ok, r)
               ELSE IF analytics.RemainingPoints.TotalRemaining <= 0
               THEN Frac(ok, 10 * r)
               ELSE Frac(7000 * ok
                            + 3 * QuotaBonusMilli(analytics.RemainingPoints.TotalRemaining) * r,
                         10000 * r))

\* The total_remaining values drawn: none, exhausted, below, at and above the bonus cap
RemainingPointsValues ==
    {[Present |-> FALSE, TotalRemaining |-> 0]} \cup
    {[Present |-> TRUE, TotalRemaining |-> t] : t \in {-1, 0, 1, 500, 1000, 2000}}

\* The key analytics records drawn
KeyAnalytics ==
    {a \in [RequestCount : 0..MaxCount, ErrorCount : 0..MaxCount,
            RemainingPoints : RemainingPointsValues] : a.ErrorCount <= a.RequestCount}

\* analytics.HealthScore = t.calculateHealthScore(analytics)
CallCalculateHealthScore ==
    /\ \E a \in KeyAnalytics :
          call' = [Fn |-> "calculateHealthScore", Arg |-> a,
                   Result |-> calculateHealthScore(a)]
    /\ UNCHANGED <<envVars, managerVars, storeVars, selectionStrategy, strategyReply, statsReply,
                   limiter, usage, now, req, admin, resetsDone, budget>>

(* makeRequest: the headers of the upstream request *)

\* The header names a client request may carry, as net/http canonicalises them
HeaderNames ==
    {"Authorization", "Host", "Content-Length", "Connection", "Upgrade",
     "Proxy-Connection", "Proxy-Authenticate", "Proxy-Authorization",
     "Proxy-Authentication-Info", "Te", "Trailers", "Transfer-Encoding",
     "Content-Type", "Accept", "X-Request-Id"}

\* strings.ToLower on the names above
ToLower(header) ==
    CASE header = "Authorization" -> "authorization"
      [] header = "Host" -> "host"
      [] header = "Content-Length" -> "content-length"
      [] header = "Connection" -> "connection"
      [] header = "Upgrade" -> "upgrade"
      [] header = "Proxy-Connection" -> "proxy-connection"
      [] header = "Proxy-Authenticate" -> "proxy-authenticate"
      [] header = "Proxy-Authorization" -> "proxy-authorization"
      [] header = "Proxy-Authentication-Info" -> "proxy-authentication-info"
      [] header = "Te" -> "te"
      [] header = "Trailers" -> "trailers"
      [] header = "Transfer-Encoding" -> "transfer-encoding"
      [] header = "Content-Type" -> "content-type"
      [] header = "Accept" -> "accept"
      [] header = "X-Request-Id" -> "x-request-id"

\* shouldCopyHeader: skipHeaders
skipHeaders ==
    {"authorization", "host", "content-length", "connection", "upgrade",
     "proxy-connection", "proxy-authenticate", "proxy-authorization", "te", "trailers",
     "transfer-encoding"}

\* shouldCopyHeader
shouldCopyHeader(header) == ToLower(header) \notin skipHeaders

\* "Bearer " + apiKey
Bearer(apiKey) == [Scheme |-> "Bearer", Token |-> apiKey]

\* The value a client gave a header
ClientValue(header) == [Client |-> header]

\* makeRequest: req.Header after the three Set calls and the copy loop; each header's
\* values in order
UpstreamHeaders(apiKey, headers) ==
    [h \in HeaderNames \cup {"User-Agent"} |->
        (CASE h = "Authorization" -> <<Bearer(apiKey)>>
           [] h = "Content-Type" -> <<"application/json">>
           [] h = "User-Agent" -> <<"tavily-load/1.0">>
           [] OTHER -> <<>>)
        \o (IF h \in headers /\ shouldCopyHeader(h) THEN <<ClientValue(h)>> ELSE <<>>)]

\* The keys a request may have been given
ApiKeys == {"K1", "K2"}

\* makeRequest(ctx, method, endpoint, apiKey, body, r.Header)
CallMakeRequest ==
    /\ \E apiKey \in ApiKeys, headers \in SUBSET HeaderNames :
          /\ Cardinality(headers) <= MaxHeaders
          /\ call' = [Fn |-> "makeRequest", Key |-> apiKey, Headers |-> headers,
                      Result |-> UpstreamHeaders(apiKey, headers)]
    /\ UNCHANGED <<envVars, managerVars, storeVars, selectionStrategy, strategyReply, statsReply,
                   limiter, usage, now, req, admin, resetsDone, budget>>

(* Handler statistics: h.stats *)

\* The response of a request that ended in the success branch (copyResponse)
Succeeded(response) == response.Status # 0 /\ response.Status < 400

\* proxyTavilyRequest, h.stats.RequestsTotal++: the read of the field
StatsTotalLoad(w) ==
    /\ req[w].pc = "select"
    /\ served[w].pc = "none"
    /\ served' = [served EXCEPT ![w] = [pc |-> "total", tmp |-> stats.RequestsTotal,
                                        handled |-> @.handled + 1]]
    /\ UNCHANGED <<envVars, managerVars, usageCache, stats, repoKeys, repoUsage, flush,
                   selectionStrategy, strategyReply, statsReply, limiter, call, usage, now,
                   req, admin, resetsDone, budget>>

\* proxyTavilyRequest, h.stats.RequestsTotal++: the write of the field
StatsTotalStore(w) ==
    /\ served[w].pc = "total"
    /\ stats' = [stats EXCEPT !.RequestsTotal = served[w].tmp + 1]
    /\ served' = [served EXCEPT ![w].pc = "counted", ![w].tmp = 0]
    /\ UNCHANGED <<envVars, managerVars, usageCache, repoKeys, repoUsage, flush,
                   selectionStrategy, strategyReply, statsReply, limiter, call, usage, now,
                   req, admin, resetsDone, budget>>

\* h.stats.RequestsSuccess++ after copyResponse, h.stats.RequestsError++ on the error
\* paths: the read of the field
StatsOutcomeLoad(w) ==
    /\ req[w].pc = "idle"
    /\ served[w].pc = "counted"
    /\ served' = [served EXCEPT
                    ![w].pc = "outcome",
                    ![w].tmp = IF Succeeded(req[w].response)
                               THEN stats.RequestsSuccess ELSE stats.RequestsError]
    /\ UNCHANGED <<envVars, managerVars, usageCache, stats, repoKeys, repoUsage, flush,
                   selectionStrategy, strategyReply, statsReply, limiter, call, usage, now,
                   req, admin, resetsDone, budget>>

\* h.stats.RequestsSuccess++ / h.stats.RequestsError++: the write of the field; the
\* handler returns
StatsOutcomeStore(w) ==
    /\ served[w].pc = "outcome"
    /\ stats' = IF Succeeded(req[w].response)
                THEN [stats EXCEPT !.RequestsSuccess = served[w].tmp + 1]
                ELSE [stats EXCEPT !.RequestsError = served[w].tmp + 1]
    /\ served' = [served EXCEPT ![w].pc = "none", ![w].tmp = 0]
    /\ UNCHANGED <<envVars, managerVars, usageCache, repoKeys, repoUsage, flush,
                   selectionStrategy, strategyReply, statsReply, limiter, call, usage, now,
                   req, admin, resetsDone, budget>>

\* The proxy requests the handler has taken so far
Handled ==
    LET sum[ws \in SUBSET Workers] ==
            IF ws = {} THEN 0
            ELSE LET v == CHOOSE x \in ws : TRUE
                 IN served[v].handled + sum[ws \ {v}]
    IN sum[Workers]

\* No handler is between its entry and its return
NoneServed == \A w \in Workers : req[w].pc = "idle" /\ served[w].pc = "none"

(* Key management: /api/keys, /api/keys/bulk-import *)

\* The text of the keys the model names.  K1, K2 and K3 name keys of the usual form;
\* the other keys are named by their text.
KeyText(k) ==
    CASE k = "K1" -> <<"t", "v", "l", "y", "-", "d", "e", "v", "-", "0", "0", "0", "1">>
      [] k = "K2" -> <<"t", "v", "l", "y", "-", "d", "e", "v", "-", "0", "0", "0", "2">>
      [] k = "K3" -> <<"t", "v", "l", "y", "-", "d", "e", "v", "-", "0", "0", "0", "3">>
      [] k = "tvly-key10" -> <<"t", "v", "l", "y", "-", "k", "e", "y", "1", "0">>
      [] k = "tvly-k" -> <<"t", "v", "l", "y", "-", "k">>
      [] k = "key" -> <<"k", "e", "y">>
      [] k = "k" -> <<"k">>
      [] k = "" -> <<>>

\* strings.HasPrefix(s, prefix)
HasPrefix(s, prefix) == Len(s) >= Len(prefix) /\ SubSeq(s, 1, Len(prefix)) = prefix

\* "tvly-"
KeyPrefix == <<"t", "v", "l", "y", "-">>

\* s[:n] panics (slice bounds out of range) unless n <= len(s)
CanSlice(s, n) == n <= Len(s)

\* api_keys.id of the row of each key
KeyID(k) ==
    CASE k = "K1" -> 1
      [] k = "K2" -> 2
      [] k = "K3" -> 3
      [] k = "tvly-k" -> 4

\* strconv.ParseInt(keyID, 10, 64) on the id parameters the model sends
ParseInt(s) ==
    CASE s = "1" -> [OK |-> TRUE, Value |-> 1]
      [] s = "3" -> [OK |-> TRUE, Value |-> 3]
      [] s = "4" -> [OK |-> TRUE, Value |-> 4]
      [] s = "9" -> [OK |-> TRUE, Value |-> 9]
      [] OTHER -> [OK |-> FALSE, Value |-> 0]

\* The keys and the id parameters of the management requests
AddInputs == {"K1", "K3", "tvly-k", "key", ""}
DeleteInputs == {"", "abc", "1", "3", "4", "9"}
BulkInputs == {<<>>, <<"key">>, <<"K3">>, <<"K1", "K3">>, <<"tvly-k", "K3">>}

\* The row columns and the usage row of a key that CreateKey inserts or DeleteKey
\* removes (ON DELETE CASCADE): is_blacklisted = false, no usage row
FreshRows(rows, ks) == [k \in DOMAIN rows |-> IF k \in ks THEN NoEntry ELSE rows[k]]
FreshUsage(counts, ks) == [k \in DOMAIN counts |-> IF k \in ks THEN 0 ELSE counts[k]]

\* addKeyHandler: the format check, CreateKey, the answer with KeyValue[:12]
addKeyHandler ==
    /\ \E k \in AddInputs, dbOK \in BOOLEAN :
          LET created == HasPrefix(KeyText(k), KeyPrefix) /\ k # "" /\ dbOK
                         /\ k \notin repoKeys
              status == IF ~HasPrefix(KeyText(k), KeyPrefix) \/ k = "" THEN 400
                        ELSE IF ~dbOK THEN 500
                        ELSE IF k \in repoKeys THEN 409
                        ELSE IF CanSlice(KeyText(k), 12) THEN 201
                        ELSE 0
          IN /\ repoKeys' = IF created THEN repoKeys \cup {k} ELSE repoKeys
             /\ repoBlacklist' = IF created THEN FreshRows(repoBlacklist, {k})
                                 ELSE repoBlacklist
             /\ repoUsage' = IF created THEN FreshUsage(repoUsage, {k}) ELSE repoUsage
             /\ call' = [Fn |-> "addKey", Arg |-> k, Status |-> status]
    /\ UNCHANGED <<envVars, currentIndex, blacklist, keyStatus, statusHeap, requestCounts,
                   errorCounts, usageCache, stats, served, flush, selectionStrategy,
                   strategyReply, statsReply, limiter, usage, now, req, admin, resetsDone,
                   budget>>

\* Fault: deleting a key also drops what the manager holds about it
deleteKeyHandlerUnloads ==
    /\ \E id \in DeleteInputs, dbOK \in BOOLEAN :
          LET parsed == ParseInt(id)
              found == {k \in repoKeys : parsed.OK /\ KeyID(k) = parsed.Value}
              deleted == IF dbOK THEN found ELSE {}
              status == IF id = "" \/ ~parsed.OK THEN 400
                        ELSE IF found = {} THEN 404
                        ELSE IF ~dbOK THEN 500
                        ELSE 200
          IN /\ repoKeys' = repoKeys \ deleted
             /\ repoBlacklist' = FreshRows(repoBlacklist, deleted)
             /\ repoUsage' = FreshUsage(repoUsage, deleted)
             /\ requestCounts' = FreshUsage(requestCounts, deleted)
             /\ errorCounts' = FreshUsage(errorCounts, deleted)
             /\ blacklist' = FreshRows(blacklist, deleted)
             /\ call' = [Fn |-> "deleteKey", Arg |-> id, Status |-> status]
    /\ UNCHANGED <<envVars, currentIndex, keyStatus, statusHeap, usageCache, stats, served,
                   flush, selectionStrategy, strategyReply, statsReply, limiter, usage, now,
                   req, admin, resetsDone, budget>>

\* deleteKeyHandler: the id parameter, GetKeyByID, DeleteKey
deleteKeyHandler ==
    /\ \E id \in DeleteInputs, dbOK \in BOOLEAN :
          LET parsed == ParseInt(id)
              found == {k \in repoKeys : parsed.OK /\ KeyID(k) = parsed.Value}
              deleted == IF dbOK THEN found ELSE {}
              status == IF id = "" \/ ~parsed.OK THEN 400
                        ELSE IF found = {} THEN 404
                        ELSE IF ~dbOK THEN 500
                        ELSE 200
          IN /\ repoKeys' = repoKeys \ deleted
             /\ repoBlacklist' = FreshRows(repoBlacklist, deleted)
             /\ repoUsage' = FreshUsage(repoUsage, deleted)
             /\ call' = [Fn |-> "deleteKey", Arg |-> id, Status |-> status]
    /\ UNCHANGED <<envVars, currentIndex, blacklist, keyStatus, statusHeap, requestCounts,
                   errorCounts, usageCache, stats, served, flush, selectionStrategy,
                   strategyReply, statsReply, limiter, usage, now, req, admin, resetsDone,
                   budget>>

\* parseKeysFromText: the lines that start with "tvly-"
RECURSIVE parseKeysFromText(_)
parseKeysFromText(lines) ==
    IF lines = <<>> THEN <<>>
    ELSE IF HasPrefix(KeyText(Head(lines)), KeyPrefix)
         THEN <<Head(lines)>> \o parseKeysFromText(Tail(lines))
         ELSE parseKeysFromText(Tail(lines))

\* importKeysToDatabase: CreateKey for each key in turn, a duplicate is skipped; the
\* log line of each key takes key[:12]
RECURSIVE importKeysToDatabase(_, _)
importKeysToDatabase(rows, ks) ==
    IF ks = <<>> THEN [Rows |-> rows, Panicked |-> FALSE]
    ELSE IF ~CanSlice(KeyText(Head(ks)), 12)
         THEN [Rows |-> rows \cup {Head(ks)}, Panicked |-> TRUE]
         ELSE importKeysToDatabase(rows \cup {Head(ks)}, Tail(ks))

\* BulkImportKeysHandler: parseKeysFromText, importKeysToDatabase
BulkImportKeysHandler ==
    /\ \E lines \in BulkInputs :
          LET ks == parseKeysFromText(lines)
              result == IF ks = <<>> THEN [Rows |-> repoKeys, Panicked |-> FALSE]
                        ELSE importKeysToDatabase(repoKeys, ks)
              created == result.Rows \ repoKeys
              status == IF lines = <<>> \/ ks = <<>> THEN 400
                        ELSE IF result.Panicked THEN 0
                        ELSE 200
          IN /\ repoKeys' = result.Rows
             /\ repoBlacklist' = FreshRows(repoBlacklist, created)
             /\ repoUsage' = FreshUsage(repoUsage, created)
             /\ call' = [Fn |-> "bulkImport", Arg |-> lines, Status |-> status]
    /\ UNCHANGED <<envVars, currentIndex, blacklist, keyStatus, statusHeap, requestCounts,
                   errorCounts, usageCache, stats, served, flush, selectionStrategy,
                   strategyReply, statsReply, limiter, usage, now, req, admin, resetsDone,
                   budget>>

\* The management calls that write the repository's key table
KeyOps == {"addKey", "deleteKey", "bulkImport"}

(* Key previews in the request path: apiKey[:12], e.Key[:8] *)

\* net/http recovers a handler panic and closes the connection: no answer is sent
PanicResponse == [Status |-> 0, Body |-> "panic: slice bounds out of range"]

\* The next statement of request w slices the key beyond its length:
\* RecordError's status.LastError = err.Error() takes e.Key[:8] (server.go:381), the
\* retry log line and the success log line take apiKey[:12] (handler.go:146, 171)
PanicsAt(w) ==
    \/ req[w].pc = "rec_store" /\ ~CanSlice(KeyText(req[w].errKey), 8)
    \/ req[w].pc = "recorded" /\ req[w].lastErr.Retryable
                              /\ ~CanSlice(KeyText(req[w].key), 12)
    \/ req[w].pc = "copy" /\ ~CanSlice(KeyText(req[w].key), 12)

\* The handler goroutine panics; what it has done so far stays done
HandlerPanic(w) ==
    /\ PanicsAt(w)
    /\ req' = [req EXCEPT ![w] = IdleReq(PanicResponse)]
    /\ UNCHANGED <<envVars, managerVars, serviceVars, usage, now, admin,
                   resetsDone, budget>>

(* updateKeyUsage: the goroutine that writes the usage to the repository *)

\* updateKeyUsage: ctx, cancel := context.WithTimeout(m.ctx, 2s); defer cancel();
\* go func() { m.keyRepo.UpdateKeyUsage(ctx, key, 1, 0) }()
FlushSpawn(w) ==
    /\ req[w].pc = "usage_load"
    /\ flush[w] # "spawned"
    /\ flush' = [flush EXCEPT ![w] = "spawned"]
    /\ UNCHANGED <<envVars, managerVars, usageCache, stats, served, repoKeys, repoUsage,
                   selectionStrategy, strategyReply, statsReply, limiter, call, usage, now,
                   req, admin, resetsDone, budget>>

\* KeyRepository.UpdateKeyUsage commits while updateKeyUsage has not returned:
\* requests_count = requests_count + 1
FlushApply(w) ==
    /\ flush[w] = "spawned"
    /\ req[w].pc = "usage_store"
    /\ repoUsage' = [repoUsage EXCEPT ![req[w].key] = @ + 1]
    /\ flush' = [flush EXCEPT ![w] = "applied"]
    /\ UNCHANGED <<envVars, managerVars, usageCache, stats, served, repoKeys,
                   selectionStrategy, strategyReply, statsReply, limiter, call, usage, now,
                   req, admin, resetsDone, budget>>

\* updateKeyUsage has returned and its deferred cancel() has run: BeginTx, QueryRowContext
\* or ExecContext of the goroutine return context.Canceled and the transaction is
\* rolled back
FlushCancelled(w) ==
    /\ flush[w] = "spawned"
    /\ req[w].pc \notin {"usage_load", "usage_store"}
    /\ flush' = [flush EXCEPT ![w] = "lost"]
    /\ UNCHANGED <<envVars, managerVars, usageCache, stats, served, repoKeys, repoUsage,
                   selectionStrategy, strategyReply, statsReply, limiter, call, usage, now,
                   req, admin, resetsDone, budget>>

-----------------------------------------------------------------------------
(* Specifications *)

\* NewManager: loadKeys, initializeKeyStatus; selectionStrategy: types.StrategyPlanFirst
InitServer(keySeqs, thresholds, retries, starts, statuses, attempts, snapshots, limits, defaults) ==
    /\ keys \in keySeqs
    /\ config \in [BlacklistThreshold : thresholds, MaxRetries : retries, StartIndex : starts,
                   MaxConcurrentRequests : limits,
                   DefaultSelectionStrategy : defaults]
    /\ currentIndex = config.StartIndex % Len(keys)
    /\ blacklist = [k \in KeySet |-> NoEntry]
    /\ keyStatus = [k \in KeySet |-> 0]
    /\ statusHeap = [k \in KeySet |-> [g \in Gens |-> NewKeyStatus]]
    /\ requestCounts = [k \in KeySet |-> 0]
    /\ errorCounts = [k \in KeySet |-> 0]
    /\ selectionStrategy = "plan_first"
    /\ strategyReply = NoReply
    /\ statsReply = NoStats
    /\ limiter = NewRateLimitMiddleware(config.MaxConcurrentRequests)
    /\ call = NoCall
    /\ usage \in {[k \in KeySet |-> NoUsage]} \cup
                 {[k \in KeySet |-> IF k = keys[1] THEN u ELSE NoUsage] : u \in snapshots}
    /\ repoBlacklist = [k \in KeySet |-> NoEntry]
    /\ now = 0
    /\ req = [w \in Workers |-> IdleReq(NoResponse)]
    /\ admin = IdleAdmin
    /\ resetsDone = 0
    /\ upstream = statuses
    /\ usageCache = [k \in KeySet |-> NoUsage]
    /\ stats = NewStats
    /\ served = [w \in Workers |-> NotServing]
    /\ repoKeys = KeySet
    /\ repoUsage = [k \in KeySet |-> 0]
    /\ flush = [w \in Workers |-> "none"]
    /\ budget = attempts

\* The server started with MAX_CONCURRENT_REQUESTS and DEFAULT_SELECTION_STRATEGY unset
InitManager(keySeqs, thresholds, retries, starts, statuses, attempts, snapshots) ==
    InitServer(keySeqs, thresholds, retries, starts, statuses, attempts, snapshots,
               {DefaultMaxConcurrentRequests}, {DefaultStrategy})

\* No request and no reset is being served.
AllIdle == admin.pc = "idle" /\ \A v \in Workers : req[v].pc = "idle"

\* Concurrent requests and a concurrent reset.
Init ==
    InitManager({<<"K1">>, <<"K1", "K2">>}, {DefaultBlacklistThreshold}, {0, 1}, {0},
                {401}, MaxAttempts, {})

Next ==
    \/ \E w \in Workers :
          \/ Begin(w)
          \/ GetNextKeyWithStrategy(w)
          \/ RoundRobinAdvance(w)
          \/ RoundRobinCheck(w)
          \/ NoKeysAvailable(w)
          \/ UpdateKeyUsageCount(w)
          \/ UpdateKeyUsageLoad(w)
          \/ UpdateKeyUsageStore(w)
          \/ MakeRequest(w)
          \/ UpstreamSuccess(w)
          \/ CopyBody(w)
          \/ UpstreamError(w)
          \/ RecordErrorCount(w)
          \/ RecordErrorLoad(w)
          \/ RecordErrorStore(w)
          \/ RecordErrorCheck(w)
          \/ BlacklistStore(w)
          \/ BlacklistStatusLoad(w)
          \/ BlacklistStatusStore(w)
          \/ Retry(w)
          \/ Fail(w)
    \/ ResetKeysBegin
    \/ ResetRangeDelete
    \/ ResetStoreStatus
    \/ ResetStoreRequestCount
    \/ ResetStoreErrorCount

Spec == Init /\ [][Next]_vars

\* Concurrent requests over two keys and strategy changes between them, no reset.
InitRotate ==
    InitManager({<<"K1", "K2">>}, {DefaultBlacklistThreshold}, {0, 1}, {0},
                {401}, MaxRotateAttempts, {})

NextRotate ==
    \/ \E w \in Workers :
          \/ Begin(w)
          \/ GetNextKeyWithStrategy(w)
          \/ RoundRobinAdvance(w)
          \/ RoundRobinCheck(w)
          \/ NoKeysAvailable(w)
          \/ UpdateKeyUsageCount(w)
          \/ UpdateKeyUsageLoad(w)
          \/ UpdateKeyUsageStore(w)
          \/ MakeRequest(w)
          \/ UpstreamSuccess(w)
          \/ CopyBody(w)
          \/ UpstreamError(w)
          \/ RecordErrorCount(w)
          \/ RecordErrorLoad(w)
          \/ RecordErrorStore(w)
          \/ RecordErrorCheck(w)
          \/ BlacklistStore(w)
          \/ BlacklistStatusLoad(w)
          \/ BlacklistStatusStore(w)
          \/ Retry(w)
          \/ Fail(w)
    \/ AllIdle /\ SetSelectionStrategy

SpecRotate == InitRotate /\ [][NextRotate]_vars

\* The same concurrent requests, a shorter run.
InitBalance ==
    InitManager({<<"K1", "K2">>}, {DefaultBlacklistThreshold}, {0, 1}, {0},
                {401}, MaxBalanceAttempts, {})

SpecBalance == InitBalance /\ [][NextRotate]_vars

\* One call at a time: requests, resets and strategy changes in sequence.
InitSeq ==
    InitManager({<<"K1">>, <<"K1", "K2">>, <<"K1", "K2", "K3">>}, 1..MaxThreshold,
                0..MaxMaxRetries, {0}, UpstreamErrorStatuses, MaxSeqAttempts,
                {PlanSnapshot})

\* Which goroutine serves a request is immaterial when they run one at a time.
SeqWorker == CHOOSE w \in Workers : TRUE

NextSeq ==
    \/ \E w \in {SeqWorker} :
          /\ admin.pc = "idle"
          /\ \/ Begin(w)
             \/ GetNextKeyWithStrategy(w)
             \/ RoundRobinAdvance(w)
             \/ RoundRobinCheck(w)
             \/ NoKeysAvailable(w)
             \/ UpdateKeyUsageCount(w)
             \/ UpdateKeyUsageLoad(w)
             \/ UpdateKeyUsageStore(w)
             \/ MakeRequest(w)
             \/ Cancel(w)
             \/ UpstreamSuccess(w)
             \/ CopyBody(w)
             \/ UpstreamError(w)
             \/ RecordErrorCount(w)
             \/ RecordErrorLoad(w)
             \/ RecordErrorStore(w)
             \/ RecordErrorCheck(w)
             \/ BlacklistStore(w)
             \/ BlacklistStatusLoad(w)
             \/ BlacklistStatusStore(w)
             \/ Retry(w)
             \/ Fail(w)
    \/ /\ \A v \in Workers : req[v].pc = "idle"
       /\ \/ ResetKeysBegin
          \/ ResetRangeDelete
          \/ ResetStoreStatus
          \/ ResetStoreRequestCount
          \/ ResetStoreErrorCount
    \/ AllIdle /\ SetSelectionStrategy

SpecSeq == InitSeq /\ [][NextSeq]_vars

\* Sequential requests while the clock runs.
InitTime ==
    InitManager({<<"K1", "K2">>}, {DefaultBlacklistThreshold}, {0, 1}, {0}, {401, 500},
                MaxTimeAttempts, {})

NextTime ==
    \/ \E w \in {SeqWorker} :
          \/ Begin(w)
          \/ GetNextKeyWithStrategy(w)
          \/ RoundRobinAdvance(w)
          \/ RoundRobinCheck(w)
          \/ NoKeysAvailable(w)
          \/ UpdateKeyUsageCount(w)
          \/ UpdateKeyUsageLoad(w)
          \/ UpdateKeyUsageStore(w)
          \/ MakeRequest(w)
          \/ UpstreamSuccess(w)
          \/ CopyBody(w)
          \/ UpstreamError(w)
          \/ RecordErrorCount(w)
          \/ RecordErrorLoad(w)
          \/ RecordErrorStore(w)
          \/ RecordErrorCheck(w)
          \/ BlacklistStore(w)
          \/ BlacklistStatusLoad(w)
          \/ BlacklistStatusStore(w)
          \/ Retry(w)
          \/ Fail(w)
    \/ Tick

SpecTime == InitTime /\ [][NextTime]_vars

\* Sequential requests under plan_first with usage updates between them.
InitPlan ==
    InitManager({<<"K1", "K2", "K3">>}, {DefaultBlacklistThreshold}, {0, 1}, {0}, {401},
                MaxPlanAttempts, {})

NextPlan ==
    \/ \E w \in {SeqWorker} :
          \/ Begin(w)
          \/ GetNextKeyWithStrategy(w)
          \/ RoundRobinAdvance(w)
          \/ RoundRobinCheck(w)
          \/ NoKeysAvailable(w)
          \/ UpdateKeyUsageCount(w)
          \/ UpdateKeyUsageLoad(w)
          \/ UpdateKeyUsageStore(w)
          \/ MakeRequest(w)
          \/ UpstreamSuccess(w)
          \/ CopyBody(w)
          \/ UpstreamError(w)
          \/ RecordErrorCount(w)
          \/ RecordErrorLoad(w)
          \/ RecordErrorStore(w)
          \/ RecordErrorCheck(w)
          \/ BlacklistStore(w)
          \/ BlacklistStatusLoad(w)
          \/ BlacklistStatusStore(w)
          \/ Retry(w)
          \/ Fail(w)
    \/ AllIdle /\ UpdateUsage

SpecPlan == InitPlan /\ [][NextPlan]_vars

\* Sequential requests with the management calls between them.
InitManage ==
    InitManager({<<"K1", "K2">>}, {DefaultBlacklistThreshold}, {0, 1}, {0}, {401},
                MaxManageAttempts, {})

NextManage ==
    \/ \E w \in {SeqWorker} :
          \/ Begin(w)
          \/ GetNextKeyWithStrategy(w)
          \/ RoundRobinAdvance(w)
          \/ RoundRobinCheck(w)
          \/ NoKeysAvailable(w)
          \/ UpdateKeyUsageCount(w)
          \/ UpdateKeyUsageLoad(w)
          \/ UpdateKeyUsageStore(w)
          \/ MakeRequest(w)
          \/ UpstreamSuccess(w)
          \/ CopyBody(w)
          \/ UpstreamError(w)
          \/ RecordErrorCount(w)
          \/ RecordErrorLoad(w)
          \/ RecordErrorStore(w)
          \/ RecordErrorCheck(w)
          \/ BlacklistStore(w)
          \/ BlacklistStatusLoad(w)
          \/ BlacklistStatusStore(w)
          \/ Retry(w)
          \/ Fail(w)
    \/ /\ AllIdle
       /\ \/ setStrategyHandler
          \/ getStrategyHandler
          \/ UnblacklistKey

SpecManage == InitManage /\ [][NextManage]_vars

\* Sequential requests with reads of /stats at any point.
InitStats ==
    InitManager({<<"K1", "K2">>}, {DefaultBlacklistThreshold}, {0, 1}, {0}, {401},
                MaxStatsAttempts, {})

NextStats ==
    \/ \E w \in {SeqWorker} :
          \/ Begin(w)
          \/ GetNextKeyWithStrategy(w)
          \/ RoundRobinAdvance(w)
          \/ RoundRobinCheck(w)
          \/ NoKeysAvailable(w)
          \/ UpdateKeyUsageCount(w)
          \/ UpdateKeyUsageLoad(w)
          \/ UpdateKeyUsageStore(w)
          \/ MakeRequest(w)
          \/ UpstreamSuccess(w)
          \/ CopyBody(w)
          \/ UpstreamError(w)
          \/ RecordErrorCount(w)
          \/ RecordErrorLoad(w)
          \/ RecordErrorStore(w)
          \/ RecordErrorCheck(w)
          \/ BlacklistStore(w)
          \/ BlacklistStatusLoad(w)
          \/ BlacklistStatusStore(w)
          \/ Retry(w)
          \/ Fail(w)
    \/ StatsHandler

SpecStats == InitStats /\ [][NextStats]_vars

\* The error taxonomy applied to every upstream status and every error type.
InitCalls ==
    InitManager({<<"K1">>}, {DefaultBlacklistThreshold}, {0}, {0}, {}, 0, {})

NextErrors ==
    \/ CallParseHTTPError
    \/ CallNewTavilyError
    \/ CallTransportError

SpecErrors == InitCalls /\ [][NextErrors]_vars

\* Concurrent requests that all use the same key, no reset.
InitCount ==
    InitManager({<<"K1">>}, {DefaultBlacklistThreshold}, {0, 1}, {0}, {401},
                MaxCountAttempts, {})

SpecCount == InitCount /\ [][NextRotate]_vars

\* Concurrent requests behind the rate limiter.
InitLimit ==
    InitServer({<<"K1">>}, {DefaultBlacklistThreshold}, {0, 1}, {0}, {401},
               MaxLimitAttempts, {}, 1..MaxConcurrent, {DefaultStrategy})

NextLimit ==
    \/ \E w \in Workers :
          \/ RateLimitHandler(w)
          \/ GetNextKeyWithStrategy(w)
          \/ RoundRobinAdvance(w)
          \/ RoundRobinCheck(w)
          \/ NoKeysAvailable(w)
          \/ UpdateKeyUsageCount(w)
          \/ UpdateKeyUsageLoad(w)
          \/ UpdateKeyUsageStore(w)
          \/ MakeRequest(w)
          \/ UpstreamSuccess(w)
          \/ CopyBody(w)
          \/ UpstreamError(w)
          \/ RecordErrorCount(w)
          \/ RecordErrorLoad(w)
          \/ RecordErrorStore(w)
          \/ RecordErrorCheck(w)
          \/ BlacklistStore(w)
          \/ BlacklistStatusLoad(w)
          \/ BlacklistStatusStore(w)
          \/ Retry(w)
          \/ Fail(w)
    \/ Refill

SpecLimit == InitLimit /\ [][NextLimit]_vars

\* The remaining points of every /usage answer.
SpecUsage == InitCalls /\ [][CallCalculateRemainingPoints]_vars

\* The health score of every key analytics record.
SpecHealth == InitCalls /\ [][CallCalculateHealthScore]_vars

\* The upstream headers of every client request of up to MaxHeaders headers.
SpecHeaders == InitCalls /\ [][CallMakeRequest]_vars

\* The usage tracker over the Redis cache: updates, reads and expiry in any order.
InitCache ==
    InitManager({<<"K1", "K2">>}, {DefaultBlacklistThreshold}, {0}, {0}, {}, 0, {})

NextCache ==
    \/ TrackerUpdateUsage
    \/ GetUsage
    \/ ExpireUsage

SpecCache == InitCache /\ [][NextCache]_vars

\* Requests one after another under a fair scheduler: the Go runtime runs every
\* runnable goroutine, and http.Client.Timeout ends every upstream call.
InitLive ==
    InitManager({<<"K1", "K2">>}, {DefaultBlacklistThreshold}, {0, 1}, {0}, {401},
                MaxLiveAttempts, {PlanSnapshot})

\* The steps of the request goroutine w once proxyTavilyRequest has been entered
RequestStep(w) ==
    \/ GetNextKeyWithStrategy(w)
    \/ RoundRobinAdvance(w)
    \/ RoundRobinCheck(w)
    \/ NoKeysAvailable(w)
    \/ UpdateKeyUsageCount(w)
    \/ UpdateKeyUsageLoad(w)
    \/ UpdateKeyUsageStore(w)
    \/ MakeRequest(w)
    \/ UpstreamSuccess(w)
    \/ CopyBody(w)
    \/ UpstreamError(w)
    \/ RecordErrorCount(w)
    \/ RecordErrorLoad(w)
    \/ RecordErrorStore(w)
    \/ RecordErrorCheck(w)
    \/ BlacklistStore(w)
    \/ BlacklistStatusLoad(w)
    \/ BlacklistStatusStore(w)
    \/ Retry(w)
    \/ Fail(w)

NextLive ==
    \/ Begin(SeqWorker)
    \/ RequestStep(SeqWorker)
    \/ AllIdle /\ SetSelectionStrategy

SpecLive == InitLive /\ [][NextLive]_vars /\ WF_vars(RequestStep(SeqWorker))

\* Concurrent requests with the handler's own statistics.
InitServe ==
    InitManager({<<"K1">>}, {DefaultBlacklistThreshold}, {0, 1}, {0}, {401},
                MaxServeAttempts, {})

NextServe ==
    \E w \in Workers :
        \/ served[w].pc = "none" /\ Begin(w)
        \/ StatsTotalLoad(w)
        \/ StatsTotalStore(w)
        \/ served[w].pc = "counted" /\ GetNextKeyWithStrategy(w)
        \/ RoundRobinAdvance(w)
        \/ RoundRobinCheck(w)
        \/ NoKeysAvailable(w)
        \/ UpdateKeyUsageCount(w)
        \/ UpdateKeyUsageLoad(w)
        \/ UpdateKeyUsageStore(w)
        \/ MakeRequest(w)
        \/ UpstreamSuccess(w)
        \/ CopyBody(w)
        \/ UpstreamError(w)
        \/ RecordErrorCount(w)
        \/ RecordErrorLoad(w)
        \/ RecordErrorStore(w)
        \/ RecordErrorCheck(w)
        \/ BlacklistStore(w)
        \/ BlacklistStatusLoad(w)
        \/ BlacklistStatusStore(w)
        \/ Retry(w)
        \/ Fail(w)
        \/ StatsOutcomeLoad(w)
        \/ StatsOutcomeStore(w)

SpecServe == InitServe /\ [][NextServe]_vars

\* Requests one after another, with key management calls at any moment.
InitKeys ==
    InitManager({<<"K1">>}, {DefaultBlacklistThreshold}, {0, 1}, {0}, {401},
                MaxKeysAttempts, {})

NextKeys ==
    \/ Begin(SeqWorker)
    \/ RequestStep(SeqWorker)
    \/ addKeyHandler
    \/ deleteKeyHandler
    \/ BulkImportKeysHandler

SpecKeys == InitKeys /\ [][NextKeys]_vars

\* Requests one after another, over a key of one, of ten or of thirteen characters.
InitPanic ==
    InitManager({<<"k">>, <<"tvly-key10">>, <<"K1">>}, {DefaultBlacklistThreshold},
                {0, 1}, {0}, {401}, MaxPanicAttempts, {})

NextPanic ==
    \E w \in {SeqWorker} :
        \/ Begin(w)
        \/ GetNextKeyWithStrategy(w)
        \/ RoundRobinAdvance(w)
        \/ RoundRobinCheck(w)
        \/ NoKeysAvailable(w)
        \/ UpdateKeyUsageCount(w)
        \/ UpdateKeyUsageLoad(w)
        \/ UpdateKeyUsageStore(w)
        \/ MakeRequest(w)
        \/ UpstreamSuccess(w)
        \/ ~PanicsAt(w) /\ CopyBody(w)
        \/ UpstreamError(w)
        \/ RecordErrorCount(w)
        \/ RecordErrorLoad(w)
        \/ ~PanicsAt(w) /\ RecordErrorStore(w)
        \/ RecordErrorCheck(w)
        \/ BlacklistStore(w)
        \/ BlacklistStatusLoad(w)
        \/ BlacklistStatusStore(w)
        \/ ~PanicsAt(w) /\ Retry(w)
        \/ ~PanicsAt(w) /\ Fail(w)
        \/ HandlerPanic(w)

SpecPanic == InitPanic /\ [][NextPanic]_vars

\* Requests one after another, each selection with its flush goroutine.
InitFlush ==
    InitManager({<<"K1">>}, {DefaultBlacklistThreshold}, {0, 1}, {0}, {401},
                MaxFlushAttempts, {})

NextFlush ==
    \E w \in {SeqWorker} :
        \/ Begin(w)
        \/ GetNextKeyWithStrategy(w)
        \/ RoundRobinAdvance(w)
        \/ RoundRobinCheck(w)
        \/ NoKeysAvailable(w)
        \/ flush[w] # "spawned" /\ UpdateKeyUsageCount(w)
        \/ FlushSpawn(w)
        \/ flush[w] = "spawned" /\ UpdateKeyUsageLoad(w)
        \/ FlushApply(w)
        \/ UpdateKeyUsageStore(w)
        \/ FlushCancelled(w)
        \/ MakeRequest(w)
        \/ UpstreamSuccess(w)
        \/ CopyBody(w)
        \/ UpstreamError(w)
        \/ RecordErrorCount(w)
        \/ RecordErrorLoad(w)
        \/ RecordErrorStore(w)
        \/ RecordErrorCheck(w)
        \/ BlacklistStore(w)
        \/ BlacklistStatusLoad(w)
        \/ BlacklistStatusStore(w)
        \/ Retry(w)
        \/ Fail(w)

SpecFlush == InitFlush /\ [][NextFlush]_vars

\* No request is in progress and no flush goroutine is still running
Flushed == AllIdle /\ \A w \in Workers : flush[w] # "spawned"

-----------------------------------------------------------------------------
(* Properties *)

\* A blacklist entry is active: permanent, or temporary and not yet expired.
EntryActive(k) ==
    /\ blacklist[k].Blacklisted
    /\ blacklist[k].Permanent \/ now < TempUntil(blacklist[k].BlacklistedAt)

\* The status record published for k
StatusOf(k) == statusHeap[k][keyStatus[k]]

RECURSIVE SumOver(_, _)
SumOver(f, S) ==
    IF S = {} THEN 0
    ELSE LET k == CHOOSE x \in S : TRUE IN f[k] + SumOver(f, S \ {k})

\* The selections made so far: every selection counts one request for its key.
Selections == SumOver(requestCounts, KeySet)

\* C1: no request sends an upstream attempt with a key whose blacklist entry is active
\* (permanent, or temporary and not yet expired) at the moment the attempt is made,
\* for every interleaving of requests, RecordError / BlacklistKey calls and resets.
C1_NoAttemptWithActiveEntry ==
    [][\A w \in Workers :
          (req[w].pc = "call" /\ req'[w].pc = "wait") => ~EntryActive(req[w].key)]_vars

\* C2: a selection ends with no_keys_available only when every key of the list is
\* blacklisted, also when other selections advance the cursor between its iterations.
\* (No entry is ever removed in a run without reset, so a key that is not blacklisted
\* when the pass ends was not blacklisted during the whole pass.)
C2_NoKeysOnlyWhenAllBlacklisted ==
    \A w \in Workers :
       (req[w].pc = "rr" /\ req[w].rrI >= N) => \A k \in KeySet : IsBlacklisted(k)

\* C3: in every reachable state and for every key, the request counter is at least
\* the error counter, also while requests run concurrently with a reset.
C3_RequestsAtLeastErrors ==
    \A k \in KeySet : requestCounts[k] >= errorCounts[k]

\* C4: a key blacklisted temporarily at t0 is skipped by every selection before
\* t0 + 5 minutes and is eligible again from t0 + 5 minutes on, with no unblacklist
\* and no reset: a selection skips a key only while its entry is active, and returns
\* only keys whose entry is not active.
C4_TemporaryEntryExpires ==
    [][\A w \in Workers :
          /\ (req[w].pc = "rr_check" /\ req'[w].pc = "rr") => EntryActive(req[w].key)
          /\ (req[w].pc = "rr_check" /\ req'[w].pc = "usage") => ~EntryActive(req[w].key)]_vars

\* C5: after RecordError(k, e) with threshold T: below T the blacklist state of k is
\* unchanged and k stays active; from T on k is blacklisted, permanently when e is
\* permanent and otherwise with a deadline 5 minutes after the blacklisting; a
\* blacklisted key is never returned by a later selection.
C5_RecordErrorBlacklistsAtThreshold ==
    [][\A w \in Workers :
          LET k == req[w].key
              e == req[w].lastErr
              T == config.BlacklistThreshold
          IN /\ (req[w].pc \in {"rec", "rec_load", "rec_store", "rec_check"}
                   /\ errorCounts'[k] < T)
                => (blacklist'[k] = blacklist[k] /\ repoBlacklist'[k] = repoBlacklist[k])
             /\ (req[w].pc # "recorded" /\ req'[w].pc = "recorded")
                => IF errorCounts'[k] < T
                   THEN ~blacklist'[k].Blacklisted /\ statusHeap'[k][keyStatus'[k]].Active
                   ELSE /\ blacklist'[k].Blacklisted
                        /\ blacklist'[k].Permanent = e.Permanent
                        /\ ~statusHeap'[k][keyStatus'[k]].Active
                        /\ repoBlacklist'[k].Blacklisted
                        /\ repoBlacklist'[k].Permanent = e.Permanent
                        /\ repoBlacklist'[k].Until =
                              (IF e.Permanent THEN -1
                               ELSE blacklist'[k].BlacklistedAt + TempBlacklistMinutes)
             /\ (req[w].pc \in {"select", "rr_check"} /\ req'[w].pc = "usage")
                => ~blacklist[req'[w].key].Blacklisted]_vars

\* C5 case: with threshold 2, the second error of a key is permanent and blacklists it.
C5_Witness ==
    \E w \in Workers :
       /\ req[w].pc = "recorded"
       /\ config.BlacklistThreshold = 2
       /\ errorCounts[req[w].key] = 2
       /\ req[w].lastErr.Permanent
       /\ IsBlacklisted(req[w].key)

\* C6: when a reset completes, whatever requests, errors and blacklistings preceded
\* it, the blacklist is empty, every request and error counter is zero and every
\* status record is active.
C6_ResetClearsAll ==
    [][(admin.pc # "idle" /\ admin'.pc = "idle")
       => \A k \in KeySet :
             /\ ~blacklist'[k].Blacklisted
             /\ requestCounts'[k] = 0
             /\ errorCounts'[k] = 0
             /\ statusHeap'[k][keyStatus'[k]].Active
             /\ statusHeap'[k][keyStatus'[k]].RequestCount = 0
             /\ statusHeap'[k][keyStatus'[k]].ErrorCount = 0]_vars

\* C6 case: a reset has completed after a key had been blacklisted permanently.
C6_Witness ==
    /\ resetsDone >= 1
    /\ admin.pc = "idle"
    /\ \E k \in KeySet :
          /\ repoBlacklist[k].Blacklisted
          /\ repoBlacklist[k].Permanent
          /\ ~IsBlacklisted(k)
          /\ errorCounts[k] = 0

\* C7: whenever no BlacklistKey, RecordError or ResetKeys call is mid-execution, a key
\* has an entry in the blacklist table iff its status record is not active.
C7_EntryIffStatusInactive ==
    (/\ admin.pc = "idle"
     /\ \A w \in Workers :
           req[w].pc \notin {"rec", "rec_load", "rec_store", "rec_check",
                             "bl_store", "bl_load", "bl_status"})
    => \A k \in KeySet : IsBlacklisted(k) <=> ~StatusOf(k).Active

\* C8: under round_robin with start index 0 and no errors, the i-th sequential
\* selection over N never-blacklisted keys returns the key at position (i-1) mod N
\* of the key list: K1 first.
C8_IthSelectionIsKeyIMinus1 ==
    \A w \in Workers :
       (/\ req[w].pc = "call"
        /\ selectionStrategy = "round_robin"
        /\ config.StartIndex = 0
        /\ resetsDone = 0
        /\ \A k \in KeySet : errorCounts[k] = 0 /\ ~IsBlacklisted(k)
        /\ currentIndex = Selections)
       => req[w].key = keys[((Selections - 1) % N) + 1]

\* C9: under round-robin over N keys none of which is blacklisted, after M selections,
\* sequential or concurrent, no two request counters differ by more than 1 + (M mod N).
\* (M selections have been made: none is between its cursor advance and its count.)
C9_RoundRobinBalance ==
    (/\ \A k \in KeySet : ~IsBlacklisted(k)
     /\ AllUsage = {}
     /\ resetsDone = 0
     /\ \A w \in Workers : req[w].pc \notin {"rr_check", "usage"})
    => \A j, k \in KeySet :
          requestCounts[j] - requestCounts[k] <= 1 + (Selections % N)

\* C9 case: three selections under round_robin, the last two by concurrent requests.
C9_Witness ==
    /\ selectionStrategy = "round_robin"
    /\ \A k \in KeySet : ~IsBlacklisted(k)
    /\ \A w \in Workers : req[w].pc = "wait"
    /\ Selections = 3
    /\ N = 2

\* C10: once the client has cancelled a request during its upstream call, the proxy
\* makes no further key selection and no further upstream attempt for that request.
C10_CancelledRequestStops ==
    \A w \in Workers :
       req[w].cancelled =>
          req[w].pc \notin {"select", "rr", "rr_check", "usage", "usage_load",
                            "usage_store", "call"}

\* The request of w ends on this step after upstream attempts that all failed with
\* a retryable error: by exhaustion of the loop, or by a selection that finds no key.
EndsAfterRetryableErrors(w) ==
    /\ req[w].pc \in {"recorded", "rr"}
    /\ req'[w].pc = "idle"
    /\ req[w].sent >= 1
    /\ req[w].lastErr.Retryable

\* The client is sent the status code and the message of the last classified error.
SentLastError(w) ==
    req'[w].response = [Status |-> req[w].lastErr.StatusCode, Body |-> req[w].lastErr.Message]

\* C11 (as stated): a request whose upstream answers every attempt with a retryable
\* error makes exactly MaxRetries + 1 attempts and the client receives the status
\* code and message of the last error, for every threshold.
C11_AlwaysMaxRetriesPlusOne ==
    [][\A w \in Workers :
          EndsAfterRetryableErrors(w)
          => (req[w].sent = config.MaxRetries + 1 /\ SentLastError(w))]_vars

\* C11 (amended): such a request either exhausts the loop, with exactly MaxRetries + 1
\* attempts and the last error's status code and message sent to the client, or ends
\* earlier at a selection that finds every key blacklisted, with at most MaxRetries
\* attempts and HTTP 503.
C11_MaxRetriesPlusOneOrNoKeys ==
    [][\A w \in Workers :
          EndsAfterRetryableErrors(w)
          => IF req[w].pc = "recorded"
             THEN req[w].sent = config.MaxRetries + 1 /\ SentLastError(w)
             ELSE /\ req[w].sent <= config.MaxRetries
                  /\ req'[w].response.Status = 503
                  /\ \A k \in KeySet : IsBlacklisted(k)]_vars

\* C11 case: three keys, MaxRetries = 2, one request whose three attempts were all
\* answered with 500; the client has been sent 500 "Server error".
C11_Witness ==
    /\ N = 3
    /\ config.MaxRetries = 2
    /\ resetsDone = 0
    /\ \A k \in KeySet : errorCounts[k] = 1 /\ requestCounts[k] = 1
    /\ \E w \in Workers :
          /\ req[w].pc = "idle"
          /\ req[w].response = [Status |-> 500, Body |-> "Server error"]

\* C12: a request makes at most MaxRetries + 1 upstream attempts (so it uses at most
\* MaxRetries + 1 distinct keys), whatever the upstream answers.
C12_AtMostMaxRetriesPlusOneAttempts ==
    \A w \in Workers : req[w].sent <= config.MaxRetries + 1

\* C12 case: with MaxRetries = 2 the third attempt of a request is outstanding.
C12_Witness ==
    \E w \in Workers :
       /\ req[w].pc = "wait"
       /\ config.MaxRetries = 2
       /\ req[w].sent = 3
       /\ req[w].attempt = 2

\* C13: when the selection of any attempt returns no_keys_available, the client is
\* answered 503 at once: the request ends with no further cursor advance, selection
\* or upstream attempt.
C13_NoKeysAnswers503 ==
    [][\A w \in Workers :
          (req[w].pc = "rr" /\ req[w].rrI >= N /\ req'[w] # req[w])
          => /\ req'[w].pc = "idle"
             /\ req'[w].response = [Status |-> 503, Body |-> "No API keys available"]
             /\ currentIndex' = currentIndex
             /\ requestCounts' = requestCounts
             /\ errorCounts' = errorCounts]_vars

\* C13 case: a retry found both keys blacklisted and the client has been sent 503.
C13_Witness ==
    /\ N = 2
    /\ config.MaxRetries = 2
    /\ \A k \in KeySet : IsBlacklisted(k) /\ errorCounts[k] = 1
    /\ \E w \in Workers : req[w].pc = "idle" /\ req[w].response.Status = 503

\* C14: after an attempt that failed with a non-retryable error (bad_request 400,
\* not_found 404) the request makes no further attempt, the client receives that
\* status code, the error counter of the key used has grown by exactly 1, and the key
\* is blacklisted only if that count reaches the threshold.
C14_NonRetryableEndsRequest ==
    [][\A w \in Workers :
          LET k == req[w].key
              e == req[w].lastErr
          IN (/\ req[w].pc = "recorded"
              /\ e.Type \in {"bad_request", "not_found"}
              /\ req'[w] # req[w])
             => /\ req'[w].pc = "idle"
                /\ req'[w].response = [Status |-> e.StatusCode, Body |-> e.Message]
                /\ e.StatusCode \in {400, 404}
                /\ errorCounts'[k] = req[w].ec0 + 1
                /\ blacklist'[k].Blacklisted
                   <=> req[w].ec0 + 1 >= config.BlacklistThreshold]_vars

\* C14 case: with threshold 2 and MaxRetries 2, the first attempt was answered 404;
\* the client has been sent 404 and the key has one error and is not blacklisted.
C14_Witness ==
    /\ config.BlacklistThreshold = 2
    /\ config.MaxRetries = 2
    /\ resetsDone = 0
    /\ SumOver(errorCounts, KeySet) = 1
    /\ Selections = 1
    /\ \A k \in KeySet : ~IsBlacklisted(k)
    /\ \E w \in Workers : req[w].pc = "idle" /\ req[w].response.Status = 404

\* C15: nothing is written to the client while the request still selects keys or
\* makes attempts; once the status of an upstream response has been written, the
\* request only finishes the copy and ends; a request that has ended is sent no
\* second response.
C15_NoRetryAfterWrite ==
    [][\A w \in Workers :
          /\ req'[w].pc \notin {"idle", "copy"} => req'[w].response = NoResponse
          /\ (req[w].pc = "copy" /\ req'[w] # req[w])
             => /\ req'[w].pc = "idle"
                /\ req'[w].response.Status = req[w].response.Status
          /\ (req[w].pc = "idle" /\ req'[w].pc = "idle")
             => req'[w].response = req[w].response]_vars

\* C15 case: the status of the upstream response to a retry has been written.
C15_Witness ==
    \E w \in Workers :
       /\ req[w].pc = "copy"
       /\ req[w].attempt = 1
       /\ req[w].response.Status = 200

\* C16: when an attempt has succeeded, the request counter of its key has grown by
\* exactly 1 and its error counter is unchanged; when an attempt has failed and the
\* error is recorded, both counters of its key have grown by exactly 1.
C16_AttemptAccounting ==
    [][\A w \in Workers :
          LET k == req[w].key
          IN /\ (req[w].pc = "wait" /\ req'[w].pc = "copy")
                => /\ requestCounts'[k] = req[w].rc0 + 1
                   /\ errorCounts'[k] = req[w].ec0
             /\ (req[w].pc # "recorded" /\ req'[w].pc = "recorded")
                => /\ requestCounts'[k] = req[w].rc0 + 1
                   /\ errorCounts'[k] = req[w].ec0 + 1]_vars

\* C16 case: the second failed attempt on the same key has been recorded.
C16_Witness ==
    \E w \in Workers :
       /\ req[w].pc = "recorded"
       /\ req[w].rc0 = 1
       /\ req[w].ec0 = 1
       /\ requestCounts[req[w].key] = 2
       /\ errorCounts[req[w].key] = 2

\* The keys plan_first is to choose among: not blacklisted, with usage data and with
\* total_remaining > 0.
Candidates == {k \in AllUsage : ~IsBlacklisted(k) /\ TotalRemaining(usage[k]) > 0}

\* C17: under plan_first, if some non-blacklisted key with total_remaining > 0 has
\* plan_remaining > 0, the selection returns a key with the largest plan_remaining
\* among the non-blacklisted keys with total_remaining > 0.
C17_PlanFirstReturnsLargestPlan ==
    \A w \in Workers :
       (/\ req[w].pc = "usage"
        /\ selectionStrategy = "plan_first"
        /\ \E k \in Candidates : PlanRemaining(usage[k]) > 0)
       => /\ req[w].key \in Candidates
          /\ \A j \in Candidates :
                PlanRemaining(usage[j]) <= PlanRemaining(usage[req[w].key])

\* C18: under plan_first, when no eligible key has plan_remaining > 0 but some
\* eligible key has total_remaining > 0, the selection returns a key with the largest
\* paygo_remaining among them (with no such key it falls back to round-robin).
C18_PlanFirstFallsBackToPaygo ==
    \A w \in Workers :
       (/\ req[w].pc = "usage"
        /\ selectionStrategy = "plan_first"
        /\ Candidates # {}
        /\ \A k \in Candidates : PlanRemaining(usage[k]) <= 0)
       => /\ req[w].key \in Candidates
          /\ \A j \in Candidates :
                PaygoRemaining(usage[j]) <= PaygoRemaining(usage[req[w].key])

\* C19: a POST /strategy with plan_first or round_robin answers 200 and installs that
\* strategy, a GET /strategy answers the strategy in force (so a read after a set of X
\* returns X), a POST with an unknown value answers 400 and leaves the strategy as it
\* was, and nothing else changes the strategy.
C19_SetThenGetStrategy ==
    [][/\ (strategyReply' # strategyReply /\ strategyReply'.Op = "set")
          => IF strategyReply'.Requested \in {"plan_first", "round_robin"}
             THEN /\ strategyReply'.Status = 200
                  /\ selectionStrategy' = strategyReply'.Requested
             ELSE /\ strategyReply'.Status = 400
                  /\ selectionStrategy' = selectionStrategy
       /\ (strategyReply' # strategyReply /\ strategyReply'.Op = "get")
          => /\ strategyReply'.Status = 200
             /\ strategyReply'.Strategy = selectionStrategy
             /\ selectionStrategy' = selectionStrategy
       /\ strategyReply' = strategyReply => selectionStrategy' = selectionStrategy]_vars

\* A read has returned round_robin, which only a set of round_robin can have installed
C19_Witness ==
    /\ strategyReply.Op = "get"
    /\ strategyReply.Strategy = "round_robin"

\* C20: unblacklisting a blacklisted key k leaves k eligible for selection: once the
\* repository's row of k is cleared, the selection no longer finds an entry of k.
C20_UnblacklistMakesEligible ==
    [][\A k \in KeySet :
          (repoBlacklist[k].Blacklisted /\ ~repoBlacklist'[k].Blacklisted)
          => ~blacklist'[k].Blacklisted]_vars

\* C21: a read of /stats changes no state of the manager (cursor, counters, status
\* records, blacklist), and a read that follows another read with no change of the
\* manager's state in between returns the same document.
C21_StatsReadIsPure ==
    [][statsReply' # statsReply
       => /\ UNCHANGED <<currentIndex, blacklist, keyStatus, statusHeap, requestCounts,
                         errorCounts, repoBlacklist, selectionStrategy, usage>>
          /\ statsReply'.Repeated => statsReply'.Doc = statsReply.Doc]_vars

\* Two reads in a row after a request has been counted
C21_Witness ==
    /\ statsReply.Op = "stats"
    /\ statsReply.Repeated
    /\ \E k \in KeySet : statsReply.Doc.RequestCounts[k] > 0

C23_CountersMonotone ==
    [][\A k \in KeySet :
          /\ requestCounts'[k] >= requestCounts[k]
          /\ errorCounts'[k] >= errorCounts[k]
          /\ statusHeap'[k][keyStatus'[k]].RequestCount
                >= statusHeap[k][keyStatus[k]].RequestCount
          /\ statusHeap'[k][keyStatus'[k]].ErrorCount
                >= statusHeap[k][keyStatus[k]].ErrorCount]_vars

\* C24: at no time are more than MaxConcurrentRequests proxy requests admitted and not
\* yet completed.
C24_AdmittedAtMostMaxConcurrent ==
    Cardinality({w \in Workers : req[w].pc # "idle"}) <= config.MaxConcurrentRequests

\* C25: at startup, until a POST /strategy has been answered, the strategy in force and
\* the strategy a GET /strategy reports is the configured default selection strategy.
C25_StartsWithConfiguredDefault ==
    [][strategyReply = NoReply
       => /\ selectionStrategy = config.DefaultSelectionStrategy
          /\ strategyReply'.Op = "get"
             => strategyReply'.Strategy = config.DefaultSelectionStrategy]_vars

\* C26: for every stored usage snapshot the key, plan and pay-as-you-go utilizations
\* (usage / limit, for a limit > 0) lie in [0, 1].
C26_UtilizationInUnitInterval ==
    call.Fn = "CalculateRemainingPoints"
    => \A f \in {"KeyUtilization", "PlanUtilization", "PaygoUtilization"} :
          /\ 0 <= call.Result[f].Num
          /\ call.Result[f].Num <= call.Result[f].Den

\* The health score of the formula, with error_rate = e / r, taken as 0 when r = 0:
\* (1 - error_rate) * 0.7 + min(1, total / 1000) * 0.3 when total > 0, else
\* (1 - error_rate) * 0.1, clamped to [0, 1]; as a fraction.
ExpectedHealth(r, e, total) ==
    LET den == IF r = 0 THEN 1 ELSE r
        ok == IF r = 0 THEN 1 ELSE r - e
        bonus == IF total > 1000 THEN 1000 ELSE total
        x == IF total > 0
             THEN [Num |-> 7000 * ok + 3 * bonus * den, Den |-> 10000 * den]
             ELSE [Num |-> ok, Den |-> 10 * den]
    IN IF x.Num < 0 THEN [Num |-> 0, Den |-> 1]
       ELSE IF x.Num > x.Den THEN [Num |-> 1, Den |-> 1] ELSE x

\* C27: for every key analytics record with request_count >= 0,
\* 0 <= error_count <= request_count and a known total_remaining, the health score is
\* the value of the formula and lies in [0, 1].
C27_HealthScoreFormula ==
    (call.Fn = "calculateHealthScore" /\ call.Arg.RemainingPoints.Present)
    => LET want == ExpectedHealth(call.Arg.RequestCount, call.Arg.ErrorCount,
                                  call.Arg.RemainingPoints.TotalRemaining)
           got == call.Result
       IN /\ got.Num * want.Den = want.Num * got.Den
          /\ 0 <= got.Num /\ got.Num <= got.Den

\* C28: the upstream request's Authorization is the bearer token of the selected key
\* alone, and no client-supplied value of Authorization, Host, Content-Length,
\* Connection, Upgrade, a Proxy-* header, TE, Trailers or Transfer-Encoding is
\* forwarded upstream.
C28_HopHeadersNotForwarded ==
    call.Fn = "makeRequest"
    => /\ call.Result["Authorization"] = <<[Scheme |-> "Bearer", Token |-> call.Key]>>
       /\ \A h \in {"Authorization", "Host", "Content-Length", "Connection", "Upgrade",
                    "Proxy-Connection", "Proxy-Authenticate", "Proxy-Authorization",
                    "Proxy-Authentication-Info", "Te", "Trailers", "Transfer-Encoding"} :
             \A i \in 1..Len(call.Result[h]) : call.Result[h][i] # [Client |-> h]

\* C29: when an attempt has failed with a retryable error and another non-blacklisted
\* key exists, the next attempt of the request uses a key other than the one that
\* failed, under round_robin and under plan_first, whatever the blacklist threshold.
C29_RetryUsesAnotherKey ==
    \A w \in Workers :
       (/\ req[w].pc = "usage"
        /\ req[w].attempt > 0
        /\ \E k \in KeySet \ {req[w].errKey} : ~IsBlacklisted(k))
       => req[w].key # req[w].errKey

\* The keys that tie for the plan-first choice: the largest plan_remaining among the keys
\* with usage data and total_remaining > 0 if it is positive, else the largest
\* paygo_remaining among them.
TiedKeys ==
    LET E == {k \in AllUsage : TotalRemaining(usage[k]) > 0}
        P == {k \in E : /\ PlanRemaining(usage[k]) > 0
                        /\ \A j \in E : PlanRemaining(usage[j]) <= PlanRemaining(usage[k])}
        G == {k \in E : \A j \in E : PaygoRemaining(usage[j]) <= PaygoRemaining(usage[k])}
    IN IF P # {} THEN P ELSE G

\* The position of k in the key list
KeyPosition(k) == CHOOSE i \in 1..N : keys[i] = k

\* C30: when plan_first picks among several keys that tie for the maximum, it returns
\* the one that comes first in the key order, so that the same state always gives the
\* same key.
C30_TieBreakFirstInOrder ==
    [][\A w \in Workers :
          (req[w].pc = "select" /\ req'[w].pc = "usage")
          => \A j \in TiedKeys : KeyPosition(req'[w].key) <= KeyPosition(j)]_vars

\* C31: a transport failure of the upstream call is classified as timeout when it is a
\* transport timeout and as network_error otherwise, retryable in both cases.
C31_TransportFailureKind ==
    call.Fn = "Do"
    => /\ call.Result.Type = IF call.Arg = "timeout" THEN "timeout" ELSE "network_error"
       /\ call.Result.Retryable

\* C32: when no call is in progress the repository's blacklist marks agree with the
\* in-memory blacklist; in particular, once a reset has completed no key is still
\* marked blacklisted in the repository.
C32_RepositoryAgreesWithMemory ==
    (AllIdle /\ admin.pc = "idle")
    => \A k \in KeySet : repoBlacklist[k].Blacklisted => blacklist[k].Blacklisted

\* C33: GetUsage(k) right after UpdateUsage(k, u) returns u, whether the cache write and
\* the cache read succeed or fail.
C33_GetUsageReturnsLastUpdate ==
    [][(call.Fn = "UpdateUsage" /\ call'.Fn = "GetUsage" /\ call'.Arg = call.Arg)
       => call'.Result = call.Usage]_vars

\* C34: a selection advances the cursor at most N times, a request makes at most
\* MaxRetries + 1 selections, and every request that was begun completes.
C34_RequestsTerminate ==
    /\ [](\A w \in Workers : req[w].rrI <= N /\ req[w].attempt <= config.MaxRetries)
    /\ \A w \in Workers : (req[w].pc # "idle") ~> (req[w].pc = "idle")

\* A request ended after a scan of all N keys found every one of them blacklisted
C34_Witness ==
    \E w \in Workers :
        /\ req[w].pc = "idle"
        /\ req[w].response = [Status |-> 503, Body |-> "No API keys available"]
        /\ \A k \in KeySet : IsBlacklisted(k)

\* C35: a permanent blacklist entry is never replaced by a temporary one; it stays
\* permanent until a reset deletes it.
C35_PermanentEntryStays ==
    [][\A k \in KeySet :
          (blacklist[k].Blacklisted /\ blacklist[k].Permanent /\ blacklist'[k].Blacklisted)
          => blacklist'[k].Permanent]_vars

\* C36: whenever no request and no reset is in progress, each key's status record
\* holds the same request_count and error_count as the key's atomic counters.
C36_StatusCountersAgree ==
    AllIdle
    => \A k \in KeySet :
          /\ statusHeap[k][keyStatus[k]].RequestCount = requestCounts[k]
          /\ statusHeap[k][keyStatus[k]].ErrorCount = errorCounts[k]

\* C37: whenever no proxy request is in progress, requests_total equals
\* requests_success + requests_error and equals the number of requests handled.
C37_StatsAddUp ==
    NoneServed
    => /\ stats.RequestsTotal = stats.RequestsSuccess + stats.RequestsError
       /\ stats.RequestsTotal = Handled

\* C38: adding, deleting or bulk-importing keys changes only the repository: the
\* manager's key list, cursor, counters, status records and blacklist stay as they are.
C38_KeyOpsLeaveManagerAlone ==
    [][((call' # call /\ call'.Fn \in KeyOps) \/ repoKeys' # repoKeys)
       => UNCHANGED <<keys, currentIndex, requestCounts, errorCounts, keyStatus,
                      statusHeap, blacklist>>]_vars

\* A key the manager has used and blacklisted was deleted from the repository
C38_Witness ==
    /\ call.Fn = "deleteKey"
    /\ call.Status = 200
    /\ \E k \in KeySet \ repoKeys : requestCounts[k] > 0 /\ IsBlacklisted(k)

C40_EverySelectionFlushed ==
    Flushed => \A k \in KeySet : repoUsage[k] = requestCounts[k]

====
